---------------------------- MODULE Spec2Model ----------------------------
(***************************************************************************)
(* FireFly IoT discovery: the orchestrator (main.discover), the protocol   *)
(* engines (UPnP, CoAP, MQTT) and the enrichment pipeline, modelled as     *)
(* state machines.  Every outbound I/O the code performs (HTTP GET, UDP    *)
(* datagram, TCP connect, XML parse of a fetched body) is recorded in      *)
(* net_log by the step that performs it, so that the safety envelope can   *)
(* be stated over every step.                                              *)
(*                                                                         *)
(* Specifications:                                                         *)
(*   SpecUPnP   UPnPDiscovery.discover + UPnPDeepEnricher on its records   *)
(*   SpecCoAP   CoAPDiscovery.discover, its four phases                    *)
(*   SpecMQTT   MQTTDiscovery.discover, one target per step                *)
(*   SpecPipe   devices_from_results, enrich_all on a worker pool,         *)
(*              apply_enrichment                                           *)
(*   SpecApi    main.discover: validation, dispatch, enrichment, response  *)
(*   SpecMDNS   MDNSDiscovery.discover and the listener callbacks          *)
(*   SpecProbe  MQTTDiscovery._probe_broker, two probes side by side       *)
(*   SpecCodec  _build_coap_request, then _parse_coap_response on its bytes*)
(*   SpecClassify DeviceClassifier(rules).enrich on a device               *)
(*   SpecStages enrich_device of the default pipeline, stage by stage      *)
(*   SpecSock   the socket calls of the multicast engines and their caller *)
(*   SpecGrab   one call of _grab_single and its socket                    *)
(*   SpecTime   the wall-clock time of discover() with timeout=1           *)
(*   SpecWorkers the thread pool of enrich_all, stage by stage             *)
(*   SpecEnum   resource enumeration on long resource lists                *)
(*   SpecBanner lengths of the banners that BannerGrabber records          *)
(*   SpecPorts  per-port timeout of BannerGrabber                          *)
(*   SpecScopes WS-Discovery scope lists                                   *)
(*   SpecReader MQTT probe: main thread and reader thread                  *)
(*   SpecRate   rate limiter under concurrent requests                     *)
(***************************************************************************)
EXTENDS Integers, Sequences, FiniteSets, TLC

VARIABLES
    net_log,        \* the I/O events issued by the step just taken
    upnp_pc,        \* UPnPDiscovery.discover: "recv" | "closed"
    upnp_recvd,     \* number of datagrams recvfrom() has returned
    discovered,     \* UPnPDiscovery.discover: the list `discovered`
    deep_idx,       \* number of records the upnp_deep stage has been run on
    deep_dev,       \* the DeviceInfo the upnp_deep stage produced last
    upnp_last,      \* while the loop runs, the last datagram: <<>> or <<what came, how the fetch went, the record>>
    coap_pc,        \* CoAPDiscovery.discover: the phase it is in
    coap_targets,   \* CoAPDiscovery.target_ips
    coap_devices,   \* devices_by_ip, in insertion order: a list of device dicts
    coap_recvd,     \* datagrams received in the current multicast loop
    coap_todo,      \* phase 2: members of all_ips not yet visited
    coap_di,        \* phases 3 and 4: index of the device being visited
    coap_ri,        \* phase 3: index of the resource being visited
    coap_results,   \* the list discover() returns
    coap_denied,    \* the hosts that answered a phase-2 probe with 4.01
    coap_heard,     \* the unicast exchange of the step just taken: <<>> or <<host, answer, datagrams sent after it>>
    mqtt_pc,        \* MQTTDiscovery.discover: "scan" | "done"
    mqtt_targets,   \* MQTTDiscovery.target_ips
    mqtt_ti,        \* index of the next target of the outer loop
    mqtt_seen,      \* the set `seen` of (ip, port) pairs
    mqtt_results,   \* the list `results`
    pipe_pc,        \* enrichment of a scan: "convert" | "run" | "returned" | "applied"
    scan_results,   \* the dict `results`: protocol -> list of raw records
    pipe_devices,   \* the DeviceInfo objects, by object number
    pipe_state,     \* per future: "queued" | "finished" | "raised" | "collected"
    pipe_offered,   \* per device: the stages whose can_enrich was called, in order
    pipe_results,   \* enrich_all: the list `results` (object numbers, 0 for None)
    pipe_enriched,  \* the list enrich_all returned (object numbers)
    api_pc,         \* main.discover: the statement it is at
    api_request,    \* the query parameters of the request
    api_query,      \* the validated DiscoverQuery
    api_status,     \* HTTP status of the response, 0 while none is sent
    api_results,    \* main.discover: the dict `results`
    api_ran,        \* the engines whose discover() was called, in call order
    api_response,   \* the JSON body of a 200 response
    mdns_pc,        \* MDNSDiscovery.discover: "create" | "browse" | "sleep" | "done" | "raised"
    mdns_types,     \* the list service_types
    mdns_ti,        \* index of the next service type of the loop
    mdns_resolvers, \* number of Zeroconf instances constructed
    mdns_closes,    \* number of zeroconf.close() calls
    mdns_browsers,  \* the list browsers: per browser its resolver and type
    mdns_services,  \* listener.services, in insertion order
    mdns_events,    \* the listener callbacks delivered, in order
    mdns_result,    \* the list discover() returned
    probe_pc,       \* _probe_broker: "connect" | "sys" | "topics" | "done"
    probe_args,      \* its arguments: ip, port_cfg, tls_supported, timeout (ms)
    probe_rc,       \* connect_rc[0], -1 while no CONNACK arrived
    probe_state,    \* the _ProbeState of each of two probes run side by side
    probe_result,   \* the `result` dict of each of the two probes
    probe_return,   \* what each probe returned: <<>> for None, else <<result>>
    probe_sent,     \* the MQTT packets the client sent, in order
    probe_msgs,     \* the messages delivered to on_message, in order
    codec_pc,       \* CoAP message codec: "input" | "built" | "parsed"
    codec_in,       \* the arguments of _build_coap_request
    codec_msg,      \* the bytes _build_coap_request returned
    codec_out,      \* what _parse_coap_response returned for them
    cls_pc,         \* DeviceClassifier: "new", "ready" (constructed) or "idle"
    cls_rules,      \* the rules argument of the constructor (<<>> for None)
    cls_sorted,     \* self._rules
    cls_prev,       \* the device as the last enrich call received it
    cls_dev,        \* the device
    cls_calls,      \* enrich calls made on the device
    st_pc,          \* enrich_device on one device: "build", "loop", "returned" or "idle"
    st_stages,      \* pipeline._enrichers, by name
    st_idx,         \* the enricher the loop of enrich_device is at
    st_env,         \* what the network answers during the run
    st_prev,        \* the device as the last enricher was offered it
    st_dev,         \* the device
    sock_pc,        \* the system call the running engine is at, "next", "done", "failed" or "idle"
    sock_plan,      \* the engines the caller runs, in order
    sock_at,        \* the engine of the plan that runs
    sock_iface,     \* interface_ip ("None" when absent)
    sock_open,      \* the engines whose socket is open
    sock_pending,   \* an exception is in flight through a finally block
    sock_recvd,     \* datagrams the running engine received
    sock_trace,     \* the system calls made so far, with their outcome
    sock_exit,      \* how each engine that ran ended: "returned" or "raised"
    grab_pc,        \* the statement _grab_single is at, "returned", "done" or "idle"
    grab_port,      \* the port being grabbed
    grab_fd,        \* the socket created for the port: "none", "open" or "closed"
    grab_sock,      \* the local `sock`: "None", "raw" or "ssl"
    grab_path,      \* what each call made so far did
    grab_result,    \* what _grab_single returns: <<>> for None, <<r>> for a BannerResult
    grab_banners,   \* device.banners
    grab_errors,    \* device.enrichment_errors
    tm_pc,          \* where the timed engine is: a loop, a phase, "returned" or "idle"
    tm_engine,      \* the engine whose discover() is timed
    tm_now,         \* time.time() since discover() was called, in ticks
    tm_start,       \* the `start` of the loop that runs
    tm_recvd,       \* responses received so far
    wk_pc,          \* enrich_all under its caller: "convert", "run", "returned" or "idle"
    wk_scan,        \* the dict `results` handed to devices_from_results
    wk_devices,     \* the DeviceInfo objects made from it, by object number
    wk_tasks,       \* the work items submitted to the pool: the object number each is for
    wk_state,       \* per work item: "queued", "running" or "finished"
    wk_worker,      \* per work item: the worker thread that runs it, 0 while queued
    wk_stage,       \* per work item: the number of stages its enrich_device has run
    wk_seen,        \* per object: the stages run on it, in the order they ran
    wk_runs,        \* per object: the calls of enrich_device started on it
    en_pc,          \* position in _enumerate_resources
    en_devices,     \* the devices dict, in iteration order
    en_before,      \* the devices dict as it was passed in
    en_di,          \* index of the device of the outer loop
    en_ri,          \* index of the resource of the inner loop
    en_gets,        \* history: the GET requests sent, [ip, uri]
    bn_pc,          \* position in BannerGrabber.enrich for one port
    bn_sent,        \* the bytes the host sends, as runs <<byte kind, count>>
    bn_result,      \* what _grab_single returned, <<>> for None
    bn_banners,     \* device.banners
    bn_services,    \* device.services
    pt_pc,          \* position in BannerGrabber.enrich
    pt_timeout,     \* the stage timeout, in seconds
    pt_port,        \* device.port, 0 when unknown
    pt_per_port,    \* per_port, as the fraction [num, den] of seconds
    pt_ports,       \* ports_to_scan, in iteration order
    pt_i,           \* index of the port of the loop
    pt_waits,       \* how many of the ports so far used up their timeout
    sc_pc,          \* position in WSDMetadataEnricher.enrich
    sc_types,       \* text of the d:Types element, None when absent
    sc_scopes,      \* scopes_el.text.strip().split()
    sc_i,           \* index of the scope of the loop
    sc_dev,         \* the device being enriched
    rd_pc,          \* position of the main thread in _probe_broker
    rd_timeout,     \* the probe's timeout, in milliseconds
    rd_state,       \* the _ProbeState shared with the reader thread
    rd_result,      \* the result dict of the main thread
    rd_dropped,     \* history: the kinds of message that a cap left out
    rd_late,        \* messages delivered after the last sleep
    rl_clock,       \* time.monotonic(), in seconds
    rl_current,     \* app.state.rate_limits[client_ip]: the list the dict holds
    rl_pc,          \* per worker thread: position in rate_limit
    rl_now,         \* per worker thread: its local `now`
    rl_bucket,      \* per worker thread: the list its local `bucket` refers to
    rl_passed,      \* history: `now` of the requests that passed, in passing order
    rl_started,     \* requests that entered rate_limit
    rl_overlap      \* history: two requests were inside rate_limit together

upnpVars == <<upnp_pc, upnp_recvd, discovered, deep_idx, deep_dev, upnp_last>>
coapVars == <<coap_pc, coap_targets, coap_devices, coap_recvd, coap_todo,
              coap_di, coap_ri, coap_results, coap_heard, coap_denied>>
mqttVars == <<mqtt_pc, mqtt_targets, mqtt_ti, mqtt_seen, mqtt_results>>
pipeVars == <<pipe_pc, scan_results, pipe_devices, pipe_state, pipe_offered,
              pipe_results, pipe_enriched>>
apiVars == <<api_pc, api_request, api_query, api_status, api_results, api_ran,
             api_response>>
mdnsVars == <<mdns_pc, mdns_types, mdns_ti, mdns_resolvers, mdns_closes,
              mdns_browsers, mdns_services, mdns_events, mdns_result>>
probeVars == <<probe_pc, probe_args, probe_rc, probe_state, probe_result,
               probe_return, probe_sent, probe_msgs>>
codecVars == <<codec_pc, codec_in, codec_msg, codec_out>>
classifyVars == <<cls_pc, cls_rules, cls_sorted, cls_prev, cls_dev, cls_calls>>
stagesVars == <<st_pc, st_stages, st_idx, st_env, st_prev, st_dev>>
sockVars == <<sock_pc, sock_plan, sock_at, sock_iface, sock_open, sock_pending, sock_recvd, sock_trace, sock_exit>>
grabVars == <<grab_pc, grab_port, grab_fd, grab_sock, grab_path, grab_result, grab_banners, grab_errors>>
timeVars == <<tm_pc, tm_engine, tm_now, tm_start, tm_recvd>>
workersVars == <<wk_pc, wk_scan, wk_devices, wk_tasks, wk_state, wk_worker, wk_stage, wk_seen, wk_runs>>
enumVars == <<en_pc, en_devices, en_before, en_di, en_ri, en_gets>>
bannerVars == <<bn_pc, bn_sent, bn_result, bn_banners, bn_services>>
portsVars == <<pt_pc, pt_timeout, pt_port, pt_per_port, pt_ports, pt_i, pt_waits>>
scopesVars == <<sc_pc, sc_types, sc_scopes, sc_i, sc_dev>>
readerVars == <<rd_pc, rd_timeout, rd_state, rd_result, rd_dropped, rd_late>>
rateVars == <<rl_clock, rl_current, rl_pc, rl_now, rl_bucket, rl_passed, rl_started, rl_overlap>>
vars == <<net_log, upnpVars, coapVars, mqttVars, pipeVars, apiVars, mdnsVars, probeVars, codecVars, classifyVars, stagesVars, sockVars, grabVars, timeVars, workersVars, enumVars, bannerVars, portsVars, scopesVars, readerVars, rateVars>>

\* The variables of the other components, idle while one component runs.
Idle == "idle"
UPnPIdle ==
    /\ upnp_pc = Idle /\ upnp_recvd = 0 /\ discovered = <<>>
    /\ deep_idx = 0 /\ deep_dev = "None" /\ upnp_last = <<>>
CoAPIdle ==
    /\ coap_pc = Idle /\ coap_targets = {} /\ coap_devices = <<>>
    /\ coap_recvd = 0 /\ coap_todo = {} /\ coap_di = 0 /\ coap_ri = 0
    /\ coap_results = <<>> /\ coap_heard = <<>> /\ coap_denied = {}
MQTTIdle ==
    /\ mqtt_pc = Idle /\ mqtt_targets = <<>> /\ mqtt_ti = 0 /\ mqtt_seen = {}
    /\ mqtt_results = <<>>
PipeIdle ==
    /\ pipe_pc = Idle /\ scan_results = <<>> /\ pipe_devices = <<>>
    /\ pipe_state = <<>> /\ pipe_offered = <<>> /\ pipe_results = <<>>
    /\ pipe_enriched = <<>>
ApiIdle ==
    /\ api_pc = Idle /\ api_request = <<>> /\ api_query = <<>> /\ api_status = 0
    /\ api_results = <<>> /\ api_ran = <<>> /\ api_response = <<>>
MDNSIdle ==
    /\ mdns_pc = Idle /\ mdns_types = <<>> /\ mdns_ti = 0 /\ mdns_resolvers = 0
    /\ mdns_closes = 0 /\ mdns_browsers = <<>> /\ mdns_services = <<>>
    /\ mdns_events = <<>> /\ mdns_result = <<>>
ProbeIdle ==
    /\ probe_pc = Idle
    /\ probe_args = <<>>
    /\ probe_rc = -1
    /\ probe_state = <<>>
    /\ probe_result = <<>>
    /\ probe_return = <<>>
    /\ probe_sent = <<>>
    /\ probe_msgs = <<>>

CodecIdle ==
    /\ codec_pc = Idle
    /\ codec_in = <<>>
    /\ codec_msg = <<>>
    /\ codec_out = <<>>

ClassifyIdle ==
    /\ cls_pc = "idle"
    /\ cls_rules = <<>>
    /\ cls_sorted = <<>>
    /\ cls_prev = <<>>
    /\ cls_dev = <<>>
    /\ cls_calls = 0

StagesIdle ==
    /\ st_pc = "idle"
    /\ st_stages = <<>>
    /\ st_idx = 0
    /\ st_env = <<>>
    /\ st_prev = <<>>
    /\ st_dev = <<>>

SockIdle ==
    /\ sock_pc = "idle"
    /\ sock_plan = <<>>
    /\ sock_at = 0
    /\ sock_iface = "None"
    /\ sock_open = {}
    /\ sock_pending = FALSE
    /\ sock_recvd = 0
    /\ sock_trace = <<>>
    /\ sock_exit = <<>>

GrabIdle ==
    /\ grab_pc = "idle"
    /\ grab_port = 0
    /\ grab_fd = "none"
    /\ grab_sock = "None"
    /\ grab_path = <<>>
    /\ grab_result = <<>>
    /\ grab_banners = <<>>
    /\ grab_errors = <<>>

TimeIdle ==
    /\ tm_pc = "idle"
    /\ tm_engine = "None"
    /\ tm_now = 0
    /\ tm_start = 0
    /\ tm_recvd = 0

WorkersIdle ==
    /\ wk_pc = "idle"
    /\ wk_scan = <<>>
    /\ wk_devices = <<>>
    /\ wk_tasks = <<>>
    /\ wk_state = <<>>
    /\ wk_worker = <<>>
    /\ wk_stage = <<>>
    /\ wk_seen = <<>>
    /\ wk_runs = <<>>

EnumIdle ==
    /\ en_pc = Idle
    /\ en_devices = <<>>
    /\ en_before = <<>>
    /\ en_di = 0
    /\ en_ri = 0
    /\ en_gets = <<>>

BannerIdle ==
    /\ bn_pc = Idle
    /\ bn_sent = <<>>
    /\ bn_result = <<>>
    /\ bn_banners = <<>>
    /\ bn_services = <<>>

PortsIdle ==
    /\ pt_pc = Idle
    /\ pt_timeout = 0
    /\ pt_port = 0
    /\ pt_per_port = <<>>
    /\ pt_ports = <<>>
    /\ pt_i = 0
    /\ pt_waits = 0

ScopesIdle ==
    /\ sc_pc = Idle
    /\ sc_types = "None"
    /\ sc_scopes = <<>>
    /\ sc_i = 0
    /\ sc_dev = <<>>

ReaderIdle ==
    /\ rd_pc = Idle
    /\ rd_timeout = 0
    /\ rd_state = <<>>
    /\ rd_result = <<>>
    /\ rd_dropped = {}
    /\ rd_late = 0

RateIdle ==
    /\ rl_clock = 0
    /\ rl_current = <<>>
    /\ rl_pc = <<>>
    /\ rl_now = <<>>
    /\ rl_bucket = <<>>
    /\ rl_passed = <<>>
    /\ rl_started = 0
    /\ rl_overlap = FALSE

\* What each component leaves alone.
exceptUPnP == <<coapVars, mqttVars, pipeVars, apiVars, mdnsVars, probeVars, codecVars, classifyVars, stagesVars, sockVars, grabVars, timeVars, workersVars, enumVars, bannerVars, portsVars, scopesVars, readerVars, rateVars>>
exceptCoAP == <<upnpVars, mqttVars, pipeVars, apiVars, mdnsVars, probeVars, codecVars, classifyVars, stagesVars, sockVars, grabVars, timeVars, workersVars, enumVars, bannerVars, portsVars, scopesVars, readerVars, rateVars>>
exceptMQTT == <<upnpVars, coapVars, pipeVars, apiVars, mdnsVars, probeVars, codecVars, classifyVars, stagesVars, sockVars, grabVars, timeVars, workersVars, enumVars, bannerVars, portsVars, scopesVars, readerVars, rateVars>>
exceptPipe == <<upnpVars, coapVars, mqttVars, apiVars, mdnsVars, probeVars, codecVars, classifyVars, stagesVars, sockVars, grabVars, timeVars, workersVars, enumVars, bannerVars, portsVars, scopesVars, readerVars, rateVars>>
exceptApi == <<upnpVars, coapVars, mqttVars, pipeVars, mdnsVars, probeVars, codecVars, classifyVars, stagesVars, sockVars, grabVars, timeVars, workersVars, enumVars, bannerVars, portsVars, scopesVars, readerVars, rateVars>>
exceptMDNS == <<upnpVars, coapVars, mqttVars, pipeVars, apiVars, probeVars, codecVars, classifyVars, stagesVars, sockVars, grabVars, timeVars, workersVars, enumVars, bannerVars, portsVars, scopesVars, readerVars, rateVars>>
exceptProbe == <<upnpVars, coapVars, mqttVars, pipeVars, apiVars, mdnsVars, codecVars, classifyVars, stagesVars, sockVars, grabVars, timeVars, workersVars, enumVars, bannerVars, portsVars, scopesVars, readerVars, rateVars>>
exceptCodec == <<upnpVars, coapVars, mqttVars, pipeVars, apiVars, mdnsVars, probeVars, classifyVars, stagesVars, sockVars, grabVars, timeVars, workersVars, enumVars, bannerVars, portsVars, scopesVars, readerVars, rateVars>>
exceptClassify == <<upnpVars, coapVars, mqttVars, pipeVars, apiVars, mdnsVars, probeVars, codecVars, stagesVars, sockVars, grabVars, timeVars, workersVars, enumVars, bannerVars, portsVars, scopesVars, readerVars, rateVars>>
exceptStages == <<upnpVars, coapVars, mqttVars, pipeVars, apiVars, mdnsVars, probeVars, codecVars, classifyVars, sockVars, grabVars, timeVars, workersVars, enumVars, bannerVars, portsVars, scopesVars, readerVars, rateVars>>
exceptSock == <<upnpVars, coapVars, mqttVars, pipeVars, apiVars, mdnsVars, probeVars, codecVars, classifyVars, stagesVars, grabVars, timeVars, workersVars, enumVars, bannerVars, portsVars, scopesVars, readerVars, rateVars>>
exceptGrab == <<upnpVars, coapVars, mqttVars, pipeVars, apiVars, mdnsVars, probeVars, codecVars, classifyVars, stagesVars, sockVars, timeVars, workersVars, enumVars, bannerVars, portsVars, scopesVars, readerVars, rateVars>>
exceptTime == <<upnpVars, coapVars, mqttVars, pipeVars, apiVars, mdnsVars, probeVars, codecVars, classifyVars, stagesVars, sockVars, grabVars, workersVars, enumVars, bannerVars, portsVars, scopesVars, readerVars, rateVars>>
exceptWorkers == <<upnpVars, coapVars, mqttVars, pipeVars, apiVars, mdnsVars, probeVars, codecVars, classifyVars, stagesVars, sockVars, grabVars, timeVars, enumVars, bannerVars, portsVars, scopesVars, readerVars, rateVars>>
exceptEnum == <<upnpVars, coapVars, mqttVars, pipeVars, apiVars, mdnsVars, probeVars, codecVars, classifyVars, stagesVars, sockVars, grabVars, timeVars, workersVars, bannerVars, portsVars, scopesVars, readerVars, rateVars>>
exceptBanner == <<upnpVars, coapVars, mqttVars, pipeVars, apiVars, mdnsVars, probeVars, codecVars, classifyVars, stagesVars, sockVars, grabVars, timeVars, workersVars, enumVars, portsVars, scopesVars, readerVars, rateVars>>
exceptPorts == <<upnpVars, coapVars, mqttVars, pipeVars, apiVars, mdnsVars, probeVars, codecVars, classifyVars, stagesVars, sockVars, grabVars, timeVars, workersVars, enumVars, bannerVars, scopesVars, readerVars, rateVars>>
exceptScopes == <<upnpVars, coapVars, mqttVars, pipeVars, apiVars, mdnsVars, probeVars, codecVars, classifyVars, stagesVars, sockVars, grabVars, timeVars, workersVars, enumVars, bannerVars, portsVars, readerVars, rateVars>>
exceptReader == <<upnpVars, coapVars, mqttVars, pipeVars, apiVars, mdnsVars, probeVars, codecVars, classifyVars, stagesVars, sockVars, grabVars, timeVars, workersVars, enumVars, bannerVars, portsVars, scopesVars, rateVars>>
exceptRate == <<upnpVars, coapVars, mqttVars, pipeVars, apiVars, mdnsVars, probeVars, codecVars, classifyVars, stagesVars, sockVars, grabVars, timeVars, workersVars, enumVars, bannerVars, portsVars, scopesVars, readerVars>>

(***************************************************************************)
(* Python values                                                           *)
(***************************************************************************)
None == "None"

\* Python truthiness of an optional string: None and "" are falsy.
Truthy(s) == s /= None /\ s /= ""

\* Python `a or b` on optional strings.
Or(a, b) == IF Truthy(a) THEN a ELSE b

(***************************************************************************)
(* Addresses.  ipaddress.ip_address() accepts the literals below and       *)
(* raises ValueError on anything else; the three predicates are those of   *)
(* the ipaddress module on these literals.                                 *)
(***************************************************************************)
IPv4Literals == {"192.168.1.20", "169.254.169.254", "127.0.0.1", "8.8.8.8"}
IPv6Literals == {"fe80::1", "2001:4860:4860::8888"}
IPLiterals == IPv4Literals \cup IPv6Literals

is_private(ip) == ip \in {"192.168.1.20", "169.254.169.254", "127.0.0.1", "fe80::1"}
is_link_local(ip) == ip \in {"169.254.169.254", "fe80::1"}
is_loopback(ip) == ip \in {"127.0.0.1"}

\* `ip.is_private or ip.is_link_local or ip.is_loopback`
AllowedTarget(ip) == is_private(ip) \/ is_link_local(ip) \/ is_loopback(ip)

(***************************************************************************)
(* URLs.  urlparse() of the LOCATION values the model draws from.          *)
(***************************************************************************)
Locations ==
    { "http://192.168.1.20:8080/dev.xml",
      "https://169.254.169.254/metadata",
      "http://8.8.8.8/d.xml",
      "ftp://192.168.1.20/d.xml",
      "http://cam.lan/d.xml",
      "http:///d.xml",
      "http://[fe80::1/d.xml" }

urlparse(location) ==
    CASE location = "http://192.168.1.20:8080/dev.xml" ->
            [scheme |-> "http", hostname |-> "192.168.1.20", port |-> 8080]
      [] location = "https://169.254.169.254/metadata" ->
            [scheme |-> "https", hostname |-> "169.254.169.254", port |-> 0]
      [] location = "http://8.8.8.8/d.xml" ->
            [scheme |-> "http", hostname |-> "8.8.8.8", port |-> 0]
      [] location = "ftp://192.168.1.20/d.xml" ->
            [scheme |-> "ftp", hostname |-> "192.168.1.20", port |-> 0]
      [] location = "http://cam.lan/d.xml" ->
            [scheme |-> "http", hostname |-> "cam.lan", port |-> 0]
      [] location = "http:///d.xml" ->
            [scheme |-> "http", hostname |-> None, port |-> 0]
      [] OTHER -> [scheme |-> "", hostname |-> None, port |-> 0]

\* urlparse() raises ValueError("Invalid IPv6 URL") on an unbalanced bracket.
MalformedLocation == "http://[fe80::1/d.xml"
urlparse_raises(location) == location = MalformedLocation

\* socket.gethostbyname(): the answer is the resolver's; it may fail.
DnsFail == "gaierror"
DnsAnswers == {"192.168.1.20", "8.8.8.8", DnsFail}

(***************************************************************************)
(* HTTP responses a LOCATION server may give.                              *)
(***************************************************************************)
max_bytes == 1048576
chunk_size == 8192

NetError == [kind |-> "error"]

\* Device-description documents: the text of each tag under <device>.
XmlFull ==
    [wellformed |-> TRUE, device |-> TRUE,
     friendlyName |-> "IPC", deviceType |-> "urn:schemas-upnp-org:device:Basic:1",
     manufacturer |-> "Hikvision", modelName |-> "DS-2CD", modelNumber |-> "V5.4",
     firmwareVersion |-> None, serialNumber |-> "SN1", UDN |-> "uuid:x",
     presentationURL |-> None, URLBase |-> None,
     serviceType |-> "urn:schemas-upnp-org:service:AVTransport:1"]
XmlBare ==
    [wellformed |-> TRUE, device |-> TRUE,
     friendlyName |-> None, deviceType |-> None,
     manufacturer |-> None, modelName |-> None, modelNumber |-> None,
     firmwareVersion |-> None, serialNumber |-> None, UDN |-> None,
     presentationURL |-> None, URLBase |-> None, serviceType |-> None]
XmlNoDevice == [XmlBare EXCEPT !.device = FALSE]
XmlMalformed == [XmlBare EXCEPT !.wellformed = FALSE, !.device = FALSE]

HttpResponse(status, ctype, size, xml) ==
    [kind |-> "response", status |-> status, ctype |-> ctype, size |-> size, xml |-> xml]

HttpOutcomes ==
    { NetError,
      HttpResponse(200, "text/xml; charset=utf-8", 512, XmlFull),
      HttpResponse(200, "Application/XML", 512, XmlBare),
      HttpResponse(200, "text/html", 512, XmlFull),
      HttpResponse(200, "text/xml", max_bytes + 1, XmlFull),
      HttpResponse(200, "text/xml", max_bytes, XmlNoDevice),
      HttpResponse(200, "text/xml", 512, XmlMalformed),
      HttpResponse(404, "text/xml", 512, XmlFull),
      HttpResponse(301, "text/xml", 512, XmlFull) }

\* `"xml" in (resp.headers.get("Content-Type") or "").lower()`
ContentTypeHasXml(ctype) ==
    ctype \in {"text/xml; charset=utf-8", "Application/XML", "text/xml"}

\* I/O events
HttpGet(by, location, ip, trust_env, allow_redirects) ==
    [ev |-> "http_get", by |-> by, url |-> location, ip |-> ip,
     trust_env |-> trust_env, allow_redirects |-> allow_redirects]
XmlParse(by, resp) ==
    [ev |-> "xml_parse", by |-> by, status |-> resp.status,
     ctype |-> resp.ctype, size |-> resp.size]


(***************************************************************************)
(* Python dicts with string keys: a function whose domain is the key set.  *)
(***************************************************************************)
EmptyDict == [k \in {} |-> None]
Get(d, k) == IF k \in DOMAIN d THEN d[k] ELSE None
GetOr(d, k, default) == IF k \in DOMAIN d THEN d[k] ELSE default
Put(d, k, v) == [x \in DOMAIN d \cup {k} |-> IF x = k THEN v ELSE d[x]]

Min(a, b) == IF a <= b THEN a ELSE b
Max(a, b) == IF a >= b THEN a ELSE b

(***************************************************************************)
(* UPnP engine (protocols/upnp.py)                                         *)
(***************************************************************************)
\* An SSDP datagram: its lines, each <<key, value>> for "Key: Value" or
\* <<line>> for a line without a colon.
StatusLine == <<"HTTP/1.1 200 OK">>
ServerHeader == "Linux/3.10 UPnP/1.0 Hikvision/1.0"
SsdpResponses ==
    { <<StatusLine, <<"LOCATION", loc>> >> : loc \in Locations }
    \cup { <<StatusLine, <<"Location", "http://192.168.1.20:8080/dev.xml">>,
             <<"Server", ServerHeader>> >>,
           <<StatusLine, <<"USN", "uuid:x::y">> >>,
           <<StatusLine, <<"LOCATION", "http://8.8.8.8/d.xml">>,
             <<"location", "http://192.168.1.20:8080/dev.xml">> >> }

\* str.upper() on the header keys that occur
upper(key) ==
    CASE key \in {"LOCATION", "Location", "location"} -> "LOCATION"
      [] key \in {"SERVER", "Server"} -> "SERVER"
      [] OTHER -> key

RECURSIVE parse_lines(_, _)
parse_lines(lines, device) ==
    IF lines = <<>> THEN device
    ELSE LET line == Head(lines) IN
         parse_lines(Tail(lines),
                     IF Len(line) = 2 THEN Put(device, upper(line[1]), line[2])
                     ELSE device)

parse_response(response) == parse_lines(response, EmptyDict)

\* The SSRF guard of enrich_device_info.  `dns` is what gethostbyname() answers
\* when the host is not an IP literal.
upnp_guard_scheme_only(location, dns) ==
    LET parsed == urlparse(location)
        host == parsed.hostname
        ip == IF host \in IPLiterals THEN host ELSE dns
    IN  [ok |-> /\ ~urlparse_raises(location)
                /\ parsed.scheme \in {"http", "https"}
                /\ Truthy(host)
                /\ ip /= DnsFail,
         ip |-> ip]

upnp_ssrf_guard(location, dns) ==
    LET parsed == urlparse(location)
        host == parsed.hostname
        ip == IF host \in IPLiterals THEN host ELSE dns
    IN  [ok |-> /\ ~urlparse_raises(location)
                /\ parsed.scheme \in {"http", "https"}
                /\ Truthy(host)
                /\ ip /= DnsFail
                /\ AllowedTarget(ip),
         ip |-> ip]

\* enrich_device_info: returns the (updated) dict and the I/O it performed.
enrich_device_info_any_status(device, dns, http) ==
    LET location == Get(device, "LOCATION")
        guard == upnp_ssrf_guard(location, dns)
        get == HttpGet("upnp", location, guard.ip, FALSE, FALSE)
    IN  IF ~Truthy(location) \/ ~guard.ok
        THEN [device |-> device, io |-> {}]
        ELSE IF http.kind = "error"
        THEN [device |-> device, io |-> {get}]
        ELSE LET xml == http.xml
                 io == {get, XmlParse("upnp", http)}
                 d1 == IF Truthy(xml.friendlyName)
                       THEN Put(device, "name", xml.friendlyName) ELSE device
                 d2 == IF Truthy(xml.deviceType)
                       THEN Put(d1, "type", xml.deviceType) ELSE d1
             IN  IF ~xml.wellformed \/ ~xml.device
                 THEN [device |-> device, io |-> io]
                 ELSE [device |-> d2, io |-> io]

enrich_device_info(device, dns, http) ==
    LET location == Get(device, "LOCATION")
        guard == upnp_ssrf_guard(location, dns)
        get == HttpGet("upnp", location, guard.ip, FALSE, FALSE)
    IN  IF ~Truthy(location) \/ ~guard.ok
        THEN [device |-> device, io |-> {}]
        ELSE IF http.kind = "error"
        THEN [device |-> device, io |-> {get}]
        ELSE IF http.status /= 200
        THEN [device |-> device, io |-> {get}]
        ELSE LET xml == http.xml
                 io == {get, XmlParse("upnp", http)}
                 d1 == IF Truthy(xml.friendlyName)
                       THEN Put(device, "name", xml.friendlyName) ELSE device
                 d2 == IF Truthy(xml.deviceType)
                       THEN Put(d1, "type", xml.deviceType) ELSE d1
             IN  IF ~xml.wellformed \/ ~xml.device
                 THEN [device |-> device, io |-> io]
                 ELSE [device |-> d2, io |-> io]

\* The way enrich_device_info leaves: without a LOCATION ("none"), at a
\* return of the guard ("rejected"), in the except clause ("error" for a
\* request that failed, "parse_error" for ET.fromstring), at the status test
\* ("status"), without a <device> node ("no_device"), or after the
\* assignments ("fetched").
fetch_outcome(device, dns, http) ==
    LET location == Get(device, "LOCATION")
    IN  IF ~Truthy(location) THEN "none"
        ELSE IF ~upnp_ssrf_guard(location, dns).ok THEN "rejected"
        ELSE IF http.kind = "error" THEN "error"
        ELSE IF http.status /= 200 THEN "status"
        ELSE IF ~http.xml.wellformed THEN "parse_error"
        ELSE IF ~http.xml.device THEN "no_device"
        ELSE "fetched"

InList(x, list) == \E i \in 1..Len(list) : list[i] = x

(***************************************************************************)
(* DeviceInfo (protocols/enrichment.py) and the conversion from raw        *)
(* records.                                                                *)
(***************************************************************************)
DeviceInfo(protocol, address, port, raw_data, friendly_name) ==
    [protocol |-> protocol, address |-> address, port |-> port,
     raw_data |-> raw_data, friendly_name |-> friendly_name,
     manufacturer |-> None, model |-> None, firmware_version |-> None,
     serial_number |-> None, device_url |-> None, device_category |-> None,
     device_tags |-> <<>>, os_guess |-> None, services |-> <<>>,
     banners |-> EmptyDict, enrichment_errors |-> <<>>]

\* A stage's outcome: the device it returns, whether it raised (and the
\* exception text), and the I/O it performed.
Returned(device, io) == [device |-> device, raised |-> FALSE, exc |-> "", io |-> io]
Raised(device, exc, io) == [device |-> device, raised |-> TRUE, exc |-> exc, io |-> io]

\* An enrichment_errors entry f"{name}: {exc}" is the pair <<name, exc>>.
WithError(device, entry) ==
    [device EXCEPT !.enrichment_errors = Append(@, entry)]

(***************************************************************************)
(* UPnPDeepEnricher                                                        *)
(***************************************************************************)
upnp_deep_can_enrich(device) ==
    device.protocol = "upnp" /\ Truthy(Get(device.raw_data, "LOCATION"))

deep_ssrf_guard(location, dns) ==
    LET parsed == urlparse(location)
        host == parsed.hostname
        ip == IF host \in IPLiterals THEN host ELSE dns
    IN  [ok |-> /\ parsed.scheme \in {"http", "https"}
                /\ Truthy(host)
                /\ ip /= DnsFail
                /\ AllowedTarget(ip),
         ip |-> ip]

\* The read loop over resp.iter_content(chunk_size=8192): after chunk k the
\* running `total` is min(k * chunk_size, size); the loop gives up as soon as
\* a total exceeds max_bytes.  TRUE when the whole body was read.
iter_content(size) ==
    LET nchunks == (size + chunk_size - 1) \div chunk_size
        total(k) == Min(k * chunk_size, size)
    IN  \A k \in 1..nchunks : ~(total(k) > max_bytes)

\* svc_type.split(":")[-2] on the service types that occur
short_name(svc_type) ==
    IF svc_type = "urn:schemas-upnp-org:service:AVTransport:1" THEN "AVTransport"
    ELSE svc_type

\* The field assignments made from the <device> node.
upnp_deep_fields(device, xml, location) ==
    LET parsed == urlparse(location)
        fw == xml.firmwareVersion
        svc == [port |-> IF parsed.port /= 0 THEN parsed.port
                         ELSE IF parsed.scheme = "https" THEN 443 ELSE 80,
                name |-> short_name(xml.serviceType),
                banner |-> xml.serviceType,
                tls |-> parsed.scheme = "https"]
    IN  [device EXCEPT
           !.friendly_name = Or(device.friendly_name, xml.friendlyName),
           !.manufacturer = xml.manufacturer,
           !.model = Or(xml.modelName, xml.modelNumber),
           !.firmware_version =
               IF Truthy(fw) THEN fw
               ELSE IF Truthy(xml.modelNumber) /\ Truthy(xml.modelName)
                    THEN xml.modelNumber ELSE @,
           !.serial_number = Or(xml.serialNumber, xml.UDN),
           !.device_url = Or(xml.presentationURL, Or(xml.URLBase, location)),
           !.services = IF Truthy(xml.serviceType) THEN Append(@, svc) ELSE @]

upnp_deep_enrich(device, dns, http) ==
    LET location == GetOr(device.raw_data, "LOCATION", "")
        guard == deep_ssrf_guard(location, dns)
        get == HttpGet("upnp_deep", location, guard.ip, FALSE, FALSE)
    IN  IF ~Truthy(location) THEN Returned(device, {})
        ELSE IF urlparse_raises(location)
        THEN Raised(device, "Invalid IPv6 URL", {})
        ELSE IF ~guard.ok THEN Returned(device, {})
        ELSE IF http.kind = "error"
        THEN Returned(WithError(device, <<"upnp_deep", "ConnectionError">>), {get})
        ELSE IF http.status /= 200 THEN Returned(device, {get})
        ELSE IF ~ContentTypeHasXml(http.ctype) THEN Returned(device, {get})
        ELSE IF ~iter_content(http.size) THEN Returned(device, {get})
        ELSE LET io == {get, XmlParse("upnp_deep", http)} IN
             IF ~http.xml.wellformed
             THEN Returned(WithError(device, <<"upnp_deep", "ParseError">>), io)
             ELSE IF ~http.xml.device THEN Returned(device, io)
             ELSE Returned(upnp_deep_fields(device, http.xml, location), io)

\* devices_from_results, the upnp branch
device_from_upnp(raw) ==
    DeviceInfo("upnp", GetOr(raw, "address", ""), 0, raw, Get(raw, "name"))

(***************************************************************************)
(* EnrichmentPipeline.enrich_device: one iteration of its loop             *)
(***************************************************************************)
stage_step_swallow(name, device, outcome) ==
    IF outcome.raised THEN device ELSE outcome.device

\* try: if can_enrich: device = enrich(...)  except: errors.append(name: exc)
stage_step(name, device, outcome) ==
    IF outcome.raised
    THEN WithError(device, <<name, outcome.exc>>)
    ELSE outcome.device

(***************************************************************************)
(* SpecUPnP: UPnPDiscovery.discover, then UPnPDeepEnricher on each record  *)
(***************************************************************************)
MaxResponses == 2
ResponderAddrs == {"192.168.1.20"}

UPnPInit ==
    /\ net_log = {}
    /\ upnp_pc = "recv"
    /\ upnp_recvd = 0
    /\ discovered = <<>>
    /\ deep_idx = 0
    /\ deep_dev = None
    /\ upnp_last = <<>>
    /\ CoAPIdle /\ MQTTIdle /\ PipeIdle /\ ApiIdle /\ MDNSIdle /\ ProbeIdle /\ CodecIdle /\ ClassifyIdle /\ StagesIdle /\ SockIdle /\ GrabIdle /\ TimeIdle /\ WorkersIdle /\ EnumIdle /\ BannerIdle /\ PortsIdle /\ ScopesIdle /\ ReaderIdle /\ RateIdle

\* A loop that appends every record it builds.
append_always(collected, device) == Append(collected, device)

\* if device not in discovered: discovered.append(device)
append_if_new(collected, device) ==
    IF InList(device, collected) THEN collected ELSE Append(collected, device)

\* One pass of the receive loop: recvfrom, parse_response, enrich_device_info,
\* dedupe-append, then the overall-timeout test.
UPnPRecv ==
    /\ upnp_pc = "recv"
    /\ upnp_recvd < MaxResponses
    /\ \E response \in SsdpResponses, addr \in ResponderAddrs,
          dns \in DnsAnswers, http \in HttpOutcomes, overall_timeout \in BOOLEAN :
          LET device == Put(parse_response(response), "address", addr)
              r == enrich_device_info(device, dns, http)
          IN  /\ discovered' = append_if_new(discovered, r.device)
              /\ net_log' = r.io
              /\ upnp_pc' = IF overall_timeout THEN "closed" ELSE "recv"
              /\ upnp_last' = IF overall_timeout THEN <<>>
                               ELSE <<[response |-> response, addr |-> addr,
                                       fetch |-> fetch_outcome(device, dns, http),
                                       device |-> r.device]>>
    /\ upnp_recvd' = upnp_recvd + 1
    /\ UNCHANGED <<deep_idx, deep_dev, exceptUPnP>>

\* recvfrom raises socket.timeout: the loop ends and the socket is closed.
UPnPTimeout ==
    /\ upnp_pc = "recv"
    /\ upnp_pc' = "closed"
    /\ upnp_last' = <<>>
    /\ net_log' = {}
    /\ UNCHANGED <<upnp_recvd, discovered, deep_idx, deep_dev, exceptUPnP>>

\* The upnp_deep stage of enrich_device on the next record of the result.
UPnPDeep ==
    /\ upnp_pc = "closed"
    /\ deep_idx < Len(discovered)
    /\ \E dns \in DnsAnswers, http \in HttpOutcomes :
          LET dev == device_from_upnp(discovered[deep_idx + 1])
              r == IF upnp_deep_can_enrich(dev) THEN upnp_deep_enrich(dev, dns, http)
                   ELSE Returned(dev, {})
          IN  /\ deep_dev' = stage_step("upnp_deep", dev, r)
              /\ net_log' = r.io
    /\ deep_idx' = deep_idx + 1
    /\ UNCHANGED <<upnp_pc, upnp_recvd, discovered, upnp_last, exceptUPnP>>

UPnPNext == UPnPRecv \/ UPnPTimeout \/ UPnPDeep

SpecUPnP == UPnPInit /\ [][UPnPNext]_vars

(***************************************************************************)
(* CoAP engine (protocols/coap.py)                                         *)
(***************************************************************************)
TYPE_CON == 0
TYPE_NON == 1
TYPE_ACK == 2
TYPE_RST == 3
CODE_GET == <<0, 1>>
CODE_CONTENT == <<2, 5>>
CODE_NOT_FOUND == <<4, 4>>
CODE_UNAUTHORIZED == <<4, 1>>
CODE_EMPTY == <<0, 0>>
OPTION_CONTENT_FORMAT == 12
COAP_MCAST_IPV4 == "224.0.1.187"
COAP_MCAST_IPV6 == "ff02::fd"
COAP_PORT == 5683
COAP_DTLS_PORT == 5684
MAX_RESOURCES_PER_DEVICE == 10

is_safe_ip(ip_str) == ip_str \in IPLiterals /\ AllowedTarget(ip_str)

\* The IPv4 loop's `if not _is_safe_ip(source_ip): continue`.
mcast4_accepts(source_ip) == is_safe_ip(source_ip)
\* The IPv6 loop has no such test.
mcast6_accepts(source_ip) == TRUE

\* sendto() on an AF_INET socket: an address that is not an IPv4 literal
\* fails to resolve in that family (socket.gaierror, an OSError).
sendto_inet_ok(ip) == ip \in IPv4Literals

\* I/O events
Datagram(by, dst, port, type, code, mid, token) ==
    [ev |-> "udp", by |-> by, dst |-> dst, port |-> port, type |-> type,
     code |-> code, mid |-> mid, token |-> token]

\* CoRE Link Format payloads and what _parse_link_format makes of them.
LinkSensor == "</temp>;rt=\"oic.d.sensor\";obs;ct=50"
LinkLight == "</.well-known/core>,</light>;rt=\"light\""
LinkGarbage == "garbage"
LinkPayloads == {LinkSensor, LinkLight, LinkGarbage}

parse_link_format(payload) ==
    CASE payload = LinkSensor ->
            << [uri |-> "/temp", rt |-> "oic.d.sensor", obs |-> TRUE, ct |-> "50"] >>
      [] payload = LinkLight ->
            << [uri |-> "/.well-known/core"], [uri |-> "/light", rt |-> "light"] >>
      [] OTHER -> <<>>

\* The device-type inference on one resource type.
infer_device_type(rt, device_type) ==
    CASE rt = "oic.d.sensor" -> "sensor"
      [] rt = "light" -> IF Truthy(device_type) THEN device_type ELSE "light"
      [] OTHER -> device_type

resource_entry(res) ==
    [uri |-> GetOr(res, "uri", ""), rt |-> Get(res, "rt"), if_desc |-> Get(res, "if"),
     ct |-> Get(res, "ct"), observable |-> "obs" \in DOMAIN res,
     title |-> Get(res, "title")]

RECURSIVE fold_device_type(_, _)
fold_device_type(parsed, device_type) ==
    IF parsed = <<>> THEN device_type
    ELSE fold_device_type(Tail(parsed),
            IF Truthy(Get(Head(parsed), "rt"))
            THEN infer_device_type(Head(parsed)["rt"], device_type)
            ELSE device_type)

\* `observable`: the uri of every entry whose observable flag is set.
RECURSIVE observable_uris(_)
observable_uris(resources) ==
    IF resources = <<>> THEN <<>>
    ELSE (IF Head(resources).observable THEN <<Head(resources).uri>> ELSE <<>>)
         \o observable_uris(Tail(resources))

Map(seq, f(_)) == [i \in 1..Len(seq) |-> f(seq[i])]

\* Position of the device with this address in the list, 0 when absent.
IndexOf(devices, ip) ==
    IF \E i \in 1..Len(devices) : devices[i]["address"] = ip
    THEN CHOOSE i \in 1..Len(devices) : devices[i]["address"] = ip
    ELSE 0

\* _process_wellknown_response
process_wellknown_response(devices, source_ip, payload) ==
    LET parsed == parse_link_format(payload)
        at == IndexOf(devices, source_ip)
        dev == IF at = 0 THEN [address |-> source_ip, port |-> COAP_PORT]
               ELSE devices[at]
        resources == Map(parsed, resource_entry)
        observable == observable_uris(resources)
        filled ==
            Put(Put(Put(Put(Put(Put(dev,
                "resources", resources),
                "observable_resources", observable),
                "unauthenticated_access", TRUE),
                "device_type", fold_device_type(parsed, None)),
                "firmware", None),
                "metadata", [raw_link_format |-> payload])
    IN  IF parsed = <<>> THEN devices
        ELSE IF at = 0 THEN Append(devices, filled)
        ELSE [devices EXCEPT ![at] = filled]

\* A datagram as _parse_coap_response returns it; ct = 0 carries no
\* Content-Format option (a zero-length option value is skipped by the code).
CoapResponse(type, code, payload, ct) ==
    [kind |-> "message", type |-> type, code |-> code, message_id |-> 7, token |-> "tk",
     payload |-> payload,
     options |-> IF ct = 0 THEN <<>> ELSE << <<OPTION_CONTENT_FORMAT, ct>> >>]

Malformed == [kind |-> "malformed"]

\* A datagram cut inside an option header (the bytes 60 45 00 01 d0, say):
\* _parse_coap_response raises IndexError or struct.error on it.
Truncated == [kind |-> "truncated"]

CoapDatagrams ==
    { Malformed, Truncated,
      CoapResponse(TYPE_NON, CODE_CONTENT, LinkSensor, 40),
      CoapResponse(TYPE_CON, CODE_CONTENT, LinkLight, 40),
      CoapResponse(TYPE_ACK, CODE_CONTENT, LinkGarbage, 0),
      CoapResponse(TYPE_ACK, CODE_UNAUTHORIZED, "", 0),
      CoapResponse(TYPE_CON, CODE_NOT_FOUND, "", 0),
      CoapResponse(TYPE_RST, CODE_EMPTY, "", 0) }

RecvTimeout == [kind |-> "timeout"]

\* str(int.from_bytes(opt_val, "big")) on the content formats that occur
ct_str(ct) == CASE ct = 40 -> "40" [] ct = 50 -> "50" [] OTHER -> "0"

\* The first option numbered OPTION_CONTENT_FORMAT with a non-empty value.
RECURSIVE content_format(_)
content_format(options) ==
    IF options = <<>> THEN None
    ELSE IF Head(options)[1] = OPTION_CONTENT_FORMAT THEN ct_str(Head(options)[2])
    ELSE content_format(Tail(options))

\* _build_ack(message_id, token)
build_ack(by, ip, resp) ==
    Datagram(by, ip, COAP_PORT, TYPE_ACK, CODE_EMPTY, resp.message_id, resp.token)

\* The request each phase builds with _build_coap_request.
build_get(by, ip, port, type) == Datagram(by, ip, port, type, CODE_GET, 1, "rq")

\* _generate_risk_flags
coap_risk_flags_dtls_assumed(dev) ==
    (IF GetOr(dev, "unauthenticated_access", FALSE) THEN <<"unauthenticated_access">> ELSE <<>>)
    \o (IF ~GetOr(dev, "dtls_supported", TRUE) THEN <<"no_dtls">> ELSE <<>>)
    \o (IF GetOr(dev, "observable_resources", <<>>) /= <<>>
        THEN <<"observable_data_leak">> ELSE <<>>)

coap_risk_flags(dev) ==
    (IF GetOr(dev, "unauthenticated_access", FALSE) THEN <<"unauthenticated_access">> ELSE <<>>)
    \o (IF ~GetOr(dev, "dtls_supported", FALSE) THEN <<"no_dtls">> ELSE <<>>)
    \o (IF GetOr(dev, "observable_resources", <<>>) /= <<>>
        THEN <<"observable_data_leak">> ELSE <<>>)

(***************************************************************************)
(* SpecCoAP: CoAPDiscovery.discover                                        *)
(***************************************************************************)
\* Where discover() is after a datagram was handed to the parser: no except
\* clause of the receive loops names the parser's exceptions, so they leave
\* discover().
after_parse(pc, resp, parsed_here) ==
    IF parsed_here /\ resp.kind = "truncated" THEN "raised" ELSE pc

MaxDatagrams == 1
MaxTargets == 1
TargetPool == {"192.168.1.20", "8.8.8.8", "fe80::1"}
Mcast4Sources == {"192.168.1.20", "8.8.8.8"}
Mcast6Sources == {"fe80::1", "2001:4860:4860::8888"}

CoAPInit ==
    /\ net_log = {}
    /\ UPnPIdle /\ MQTTIdle /\ PipeIdle /\ ApiIdle /\ MDNSIdle /\ ProbeIdle /\ CodecIdle /\ ClassifyIdle /\ StagesIdle /\ SockIdle /\ GrabIdle /\ TimeIdle /\ WorkersIdle /\ EnumIdle /\ BannerIdle /\ PortsIdle /\ ScopesIdle /\ ReaderIdle /\ RateIdle
    /\ coap_pc = "mcast4_send"
    /\ coap_targets \in {t \in SUBSET TargetPool : Cardinality(t) <= MaxTargets}
    /\ coap_devices = <<>>
    /\ coap_recvd = 0
    /\ coap_todo = {}
    /\ coap_di = 0
    /\ coap_ri = 0
    /\ coap_results = <<>>
    /\ coap_heard = <<>>
    /\ coap_denied = {}

\* Phase 1, IPv4: socket, options, sendto the group; an OSError skips the loop.
CoapMcast4Send ==
    /\ coap_pc = "mcast4_send"
    /\ \E ok \in BOOLEAN :
          /\ net_log' = IF ok THEN {build_get("coap.multicast", COAP_MCAST_IPV4,
                                              COAP_PORT, TYPE_NON)}
                        ELSE {}
          /\ coap_pc' = IF ok THEN "mcast4" ELSE "mcast6_send"
    /\ coap_recvd' = 0
    /\ coap_heard' = <<>>
    /\ UNCHANGED <<coap_denied, coap_targets, coap_devices, coap_todo, coap_di, coap_ri,
                   coap_results, exceptCoAP>>

\* One datagram of the IPv4 receive loop.
CoapMcast4Recv ==
    /\ coap_pc = "mcast4"
    /\ coap_recvd < MaxDatagrams
    /\ \E source_ip \in Mcast4Sources, resp \in CoapDatagrams :
          /\ coap_devices' =
                IF /\ mcast4_accepts(source_ip)
                   /\ resp.kind = "message"
                   /\ resp.code = CODE_CONTENT
                THEN process_wellknown_response(coap_devices, source_ip, resp.payload)
                ELSE coap_devices
          /\ coap_pc' = after_parse(coap_pc, resp, mcast4_accepts(source_ip))
    /\ coap_recvd' = coap_recvd + 1
    /\ net_log' = {}
    /\ coap_heard' = <<>>
    /\ UNCHANGED <<coap_denied, coap_targets, coap_todo, coap_di, coap_ri,
                   coap_results, exceptCoAP>>

\* The IPv4 loop ends (time is up, or recvfrom raised OSError).
CoapMcast4End ==
    /\ coap_pc = "mcast4"
    /\ coap_pc' = "mcast6_send"
    /\ net_log' = {}
    /\ coap_heard' = <<>>
    /\ UNCHANGED <<coap_denied, coap_targets, coap_devices, coap_recvd, coap_todo, coap_di,
                   coap_ri, coap_results, exceptCoAP>>

\* Phase 1, IPv6 (best effort); on failure phase 2 is next.
CoapMcast6Send ==
    /\ coap_pc = "mcast6_send"
    /\ \E ok \in BOOLEAN :
          /\ net_log' = IF ok THEN {build_get("coap.multicast", COAP_MCAST_IPV6,
                                              COAP_PORT, TYPE_NON)}
                        ELSE {}
          /\ coap_pc' = IF ok THEN "mcast6" ELSE "unicast"
          /\ coap_todo' = IF ok THEN coap_todo
                          ELSE coap_targets \cup
                               {coap_devices[i]["address"] : i \in 1..Len(coap_devices)}
    /\ coap_recvd' = 0
    /\ coap_heard' = <<>>
    /\ UNCHANGED <<coap_denied, coap_targets, coap_devices, coap_di, coap_ri, coap_results,
                   exceptCoAP>>

\* One datagram of the IPv6 receive loop.
CoapMcast6Recv ==
    /\ coap_pc = "mcast6"
    /\ coap_recvd < MaxDatagrams
    /\ \E source_ip \in Mcast6Sources, resp \in CoapDatagrams :
          /\ coap_devices' =
                IF /\ mcast6_accepts(source_ip)
                   /\ resp.kind = "message"
                   /\ resp.code = CODE_CONTENT
                THEN process_wellknown_response(coap_devices, source_ip, resp.payload)
                ELSE coap_devices
          /\ coap_pc' = after_parse(coap_pc, resp, mcast6_accepts(source_ip))
    /\ coap_recvd' = coap_recvd + 1
    /\ net_log' = {}
    /\ coap_heard' = <<>>
    /\ UNCHANGED <<coap_denied, coap_targets, coap_todo, coap_di, coap_ri,
                   coap_results, exceptCoAP>>

\* The IPv6 loop ends; all_ips of phase 2 is computed.
CoapMcast6End ==
    /\ coap_pc = "mcast6"
    /\ coap_pc' = "unicast"
    /\ coap_todo' = coap_targets \cup
                    {coap_devices[i]["address"] : i \in 1..Len(coap_devices)}
    /\ net_log' = {}
    /\ coap_heard' = <<>>
    /\ UNCHANGED <<coap_denied, coap_targets, coap_devices, coap_recvd, coap_di, coap_ri,
                   coap_results, exceptCoAP>>

\* The effect of one unicast answer on devices_by_ip.
unicast_response_bare_on_401(devices, ip, resp) ==
    IF resp.kind /= "message" THEN devices
    ELSE IF resp.code = CODE_CONTENT
    THEN process_wellknown_response(devices, ip, resp.payload)
    ELSE IF resp.code = CODE_UNAUTHORIZED /\ IndexOf(devices, ip) = 0
    THEN Append(devices, [address |-> ip, port |-> COAP_PORT])
    ELSE devices

unicast_response(devices, ip, resp) ==
    IF resp.kind /= "message" THEN devices
    ELSE IF resp.code = CODE_CONTENT
    THEN process_wellknown_response(devices, ip, resp.payload)
    ELSE IF resp.code = CODE_UNAUTHORIZED /\ IndexOf(devices, ip) = 0
    THEN Append(devices, [address |-> ip, port |-> COAP_PORT, resources |-> <<>>,
                          unauthenticated_access |-> FALSE])
    ELSE devices

\* The datagrams a phase sends once an answer was parsed: the ACK of a
\* confirmable one.
acks_after_any_type(by, ip, resp) ==
    IF resp.kind = "message" THEN <<build_ack(by, ip, resp)>>
    ELSE <<>>

acks_after(by, ip, resp) ==
    IF resp.kind = "message" /\ resp.type = TYPE_CON THEN <<build_ack(by, ip, resp)>>
    ELSE <<>>

\* The same as a set of datagrams.
ack_for(by, ip, resp) ==
    {acks_after(by, ip, resp)[i] : i \in 1..Len(acks_after(by, ip, resp))}

\* What a unicast step heard and sent in reply; <<>> when no request went
\* out or no answer came.
heard(by, ip, resp, sent) ==
    IF sent /\ resp.kind /= "timeout"
    THEN <<[by |-> by, ip |-> ip, resp |-> resp, replies |-> acks_after(by, ip, resp)]>>
    ELSE <<>>

\* Phase 2: one iteration of `for ip in target_ips` (a set: any order).
CoapUnicastProbe ==
    /\ coap_pc = "unicast"
    /\ \E ip \in coap_todo, resp \in CoapDatagrams \cup {RecvTimeout} :
          LET at == IndexOf(coap_devices, ip)
              skip == \/ ~is_safe_ip(ip)
                      \/ (at /= 0 /\ GetOr(coap_devices[at], "resources", <<>>) /= <<>>)
              sent == ~skip /\ sendto_inet_ok(ip)
          IN  /\ coap_todo' = coap_todo \ {ip}
              /\ net_log' = IF sent
                            THEN {build_get("coap.unicast", ip, COAP_PORT, TYPE_CON)}
                                 \cup ack_for("coap.unicast", ip, resp)
                            ELSE {}
              /\ coap_devices' = IF sent THEN unicast_response(coap_devices, ip, resp)
                                 ELSE coap_devices
              /\ coap_pc' = after_parse(coap_pc, resp, sent)
              /\ coap_heard' = heard("coap.unicast", ip, resp, sent)
              /\ coap_denied' = IF sent /\ resp.kind = "message"
                                    /\ resp.code = CODE_UNAUTHORIZED
                                 THEN coap_denied \cup {ip} ELSE coap_denied
    /\ UNCHANGED <<coap_targets, coap_recvd, coap_di, coap_ri,
                   coap_results, exceptCoAP>>

\* Phase 2 ends: the set is exhausted, the time is up, or it was skipped.
CoapUnicastEnd ==
    /\ coap_pc = "unicast"
    /\ coap_pc' = "enum"
    /\ coap_di' = 1
    /\ coap_ri' = 1
    /\ net_log' = {}
    /\ coap_heard' = <<>>
    /\ UNCHANGED <<coap_denied, coap_targets, coap_devices, coap_recvd, coap_todo,
                   coap_results, exceptCoAP>>

\* An enumeration that keeps the body of the answer in the entry as well.
enumerated_with_payload(res, resp) ==
    IF resp.kind /= "message" THEN res
    ELSE Put(Put(res, "payload_size", Len(resp.payload)), "payload", resp.payload)

\* What a GET answer adds to the resource entry.
enumerated(res, resp) ==
    IF resp.kind /= "message" THEN res
    ELSE LET ct == content_format(resp.options)
             r1 == IF ct /= None THEN Put(res, "ct_detected", ct) ELSE res
         IN  Put(r1, "payload_size", Len(resp.payload))

\* Phase 3: one iteration of `for res in resources[:MAX_RESOURCES_PER_DEVICE]`.
CoapEnumGet ==
    /\ coap_pc = "enum"
    /\ coap_di <= Len(coap_devices)
    /\ LET dev == coap_devices[coap_di]
           ip == dev["address"]
           resources == GetOr(dev, "resources", <<>>)
           limit == Min(Len(resources), MAX_RESOURCES_PER_DEVICE)
       IN  /\ coap_ri <= limit
           /\ \E resp \in CoapDatagrams \cup {RecvTimeout} :
                 LET res == resources[coap_ri]
                     uri == GetOr(res, "uri", "")
                     skip == uri = "" \/ uri = "/.well-known/core"
                     sent == ~skip /\ sendto_inet_ok(ip)
                 IN  /\ net_log' = IF sent
                                   THEN {build_get("coap.enumerate", ip, COAP_PORT, TYPE_CON)}
                                        \cup ack_for("coap.enumerate", ip, resp)
                                   ELSE {}
                     /\ coap_devices' =
                           IF sent
                           THEN [coap_devices EXCEPT ![coap_di] =
                                   Put(dev, "resources",
                                       [resources EXCEPT ![coap_ri] = enumerated(res, resp)])]
                           ELSE coap_devices
                     /\ coap_pc' = after_parse(coap_pc, resp, sent)
                     /\ coap_heard' = heard("coap.enumerate", ip, resp, sent)
    /\ coap_ri' = coap_ri + 1
    /\ UNCHANGED <<coap_denied, coap_targets, coap_recvd, coap_todo, coap_di,
                   coap_results, exceptCoAP>>

\* Phase 3: the inner loop is over for this device; on to the next one.
CoapEnumNextDevice ==
    /\ coap_pc = "enum"
    /\ coap_di <= Len(coap_devices)
    /\ coap_ri > Min(Len(GetOr(coap_devices[coap_di], "resources", <<>>)),
                     MAX_RESOURCES_PER_DEVICE)
    /\ coap_di' = coap_di + 1
    /\ coap_ri' = 1
    /\ net_log' = {}
    /\ coap_heard' = <<>>
    /\ UNCHANGED <<coap_denied, coap_pc, coap_targets, coap_devices, coap_recvd, coap_todo,
                   coap_results, exceptCoAP>>

\* Phase 3 ends: every device was visited, the time is up, or it was skipped.
CoapEnumEnd ==
    /\ coap_pc = "enum"
    /\ coap_pc' = "dtls"
    /\ coap_di' = 1
    /\ net_log' = {}
    /\ coap_heard' = <<>>
    /\ UNCHANGED <<coap_denied, coap_targets, coap_devices, coap_recvd, coap_todo, coap_ri,
                   coap_results, exceptCoAP>>

\* Phase 4: one iteration of `for ip, dev in devices.items()`.
CoapDtlsCheck ==
    /\ coap_pc = "dtls"
    /\ coap_di <= Len(coap_devices)
    /\ \E answered \in BOOLEAN :
          LET dev == coap_devices[coap_di]
              ip == dev["address"]
              sent == sendto_inet_ok(ip)
          IN  /\ net_log' = IF sent
                            THEN {build_get("coap.dtls", ip, COAP_DTLS_PORT, TYPE_CON)}
                            ELSE {}
              /\ coap_devices' =
                    [coap_devices EXCEPT ![coap_di] =
                        IF sent /\ answered THEN Put(dev, "dtls_supported", TRUE)
                        ELSE IF "dtls_supported" \in DOMAIN dev THEN dev
                        ELSE Put(dev, "dtls_supported", FALSE)]
    /\ coap_di' = coap_di + 1
    /\ coap_heard' = <<>>
    /\ UNCHANGED <<coap_denied, coap_pc, coap_targets, coap_recvd, coap_todo, coap_ri,
                   coap_results, exceptCoAP>>

\* The final loop: address and port defaults and the risk flags.
coap_result(dev) ==
    LET d1 == IF "port" \in DOMAIN dev THEN dev ELSE Put(dev, "port", COAP_PORT)
    IN  Put(d1, "risk_flags", coap_risk_flags(d1))

\* Phase 4 is over (or was skipped for lack of time): build the result.
CoapFinish ==
    /\ coap_pc = "dtls"
    /\ coap_di = 1 \/ coap_di > Len(coap_devices)
    /\ coap_results' = Map(coap_devices, coap_result)
    /\ coap_pc' = "done"
    /\ net_log' = {}
    /\ coap_heard' = <<>>
    /\ UNCHANGED <<coap_denied, coap_targets, coap_devices, coap_recvd, coap_todo, coap_di,
                   coap_ri, exceptCoAP>>

CoAPNext ==
    \/ CoapMcast4Send \/ CoapMcast4Recv \/ CoapMcast4End
    \/ CoapMcast6Send \/ CoapMcast6Recv \/ CoapMcast6End
    \/ CoapUnicastProbe \/ CoapUnicastEnd
    \/ CoapEnumGet \/ CoapEnumNextDevice \/ CoapEnumEnd
    \/ CoapDtlsCheck \/ CoapFinish

SpecCoAP == CoAPInit /\ [][CoAPNext]_vars

(***************************************************************************)
(* SpecMQTT: MQTTDiscovery.discover                                        *)
(***************************************************************************)
DEFAULT_PORTS ==
    << [port |-> 1883, name |-> "MQTT", tls |-> FALSE],
       [port |-> 8883, name |-> "MQTT-TLS", tls |-> TRUE] >>

TcpConnect(by, host, port) == [ev |-> "tcp_connect", by |-> by, host |-> host, port |-> port]

\* $SYS data a broker may publish within the collection window.
SysVersion == "$SYS/broker/version"
SysDatas == {EmptyDict, [k \in {SysVersion} |-> "mosquitto version 2.0.15"]}

\* version.lower().split()[0].capitalize() on the versions that occur
broker_short_name(version) ==
    CASE version = "mosquitto version 2.0.15" -> "Mosquitto"
      [] version = "emqx 5.0" -> "Emqx"
      [] OTHER -> version

\* _generate_risk_flags
mqtt_risk_flags(result) ==
    (IF result.anonymous_access THEN <<"open_broker">> ELSE <<>>)
    \o (IF result.anonymous_publish THEN <<"anonymous_publish">> ELSE <<>>)
    \o (IF ~result.tls_supported THEN <<"no_tls">> ELSE <<>>)

\* The `result` dict _probe_broker starts from.
broker_result(ip, port, tls_supported) ==
    [address |-> ip, port |-> port, broker_name |-> None, broker_version |-> None,
     anonymous_access |-> FALSE, tls_supported |-> tls_supported,
     anonymous_publish |-> FALSE, connected_clients |-> None,
     uptime_seconds |-> None, messages_received |-> None, messages_sent |-> None,
     sampled_topics |-> <<>>, topic_count |-> 0,
     risk_flags |-> <<>>, metadata |-> EmptyDict]

\* What the broker does with the anonymous CONNECT.
BrokerOutcomes ==
    { [kind |-> "refused"], [kind |-> "no_connack"], [kind |-> "not_authorized"] }
    \cup { [kind |-> "accepted", sys |-> sys, publish |-> pub] :
               sys \in SysDatas, pub \in BOOLEAN }

\* _probe_broker: the list of brokers it contributes (empty for None).
probe_broker(ip, port_cfg, tls_supported, outcome) ==
    LET result == broker_result(ip, port_cfg.port, tls_supported) IN
    IF outcome.kind \in {"refused", "no_connack"} THEN <<>>
    ELSE IF outcome.kind = "not_authorized" THEN <<result>>
    ELSE LET version == GetOr(outcome.sys, SysVersion, "")
             r1 == [result EXCEPT
                      !.anonymous_access = TRUE,
                      !.broker_version = IF version /= "" THEN version ELSE @,
                      !.broker_name = IF version /= "" THEN broker_short_name(version)
                                      ELSE @,
                      !.anonymous_publish = outcome.publish,
                      !.metadata = outcome.sys]
         IN  << [r1 EXCEPT !.risk_flags = mqtt_risk_flags(r1)] >>

\* The port configs of self.ports the inner loop reaches before the time is
\* up, minus the ones `seen` already holds.
RECURSIVE ports_to_probe(_, _, _, _)
ports_to_probe(ports, reach, ip, seen) ==
    IF ports = <<>> \/ reach = 0 THEN <<>>
    ELSE (IF <<ip, Head(ports).port>> \in seen THEN <<>> ELSE <<Head(ports)>>)
         \o ports_to_probe(Tail(ports), reach - 1, ip, seen)

MaxMqttTargets == 2
MqttTargetPool == {"192.168.1.20", "8.8.8.8"}

MQTTInit ==
    /\ net_log = {}
    /\ UPnPIdle /\ CoAPIdle /\ PipeIdle /\ ApiIdle /\ MDNSIdle /\ ProbeIdle /\ CodecIdle /\ ClassifyIdle /\ StagesIdle /\ SockIdle /\ GrabIdle /\ TimeIdle /\ WorkersIdle /\ EnumIdle /\ BannerIdle /\ PortsIdle /\ ScopesIdle /\ ReaderIdle /\ RateIdle
    /\ mqtt_pc = "scan"
    /\ mqtt_targets \in UNION {[1..n -> MqttTargetPool] : n \in 0..MaxMqttTargets}
    /\ mqtt_ti = 1
    /\ mqtt_seen = {}
    /\ mqtt_results = <<>>

\* One iteration of `for ip in self.target_ips`: the TCP port checks of the
\* inner loop, then _probe_broker on the preferred open port.
MqttScanTarget ==
    /\ mqtt_pc = "scan"
    /\ mqtt_ti <= Len(mqtt_targets)
    /\ \E reach \in 0..Len(DEFAULT_PORTS), listening \in SUBSET {1883, 8883},
          short \in BOOLEAN, outcome \in BrokerOutcomes :
          LET ip == mqtt_targets[mqtt_ti]
              probed == ports_to_probe(DEFAULT_PORTS, reach, ip, mqtt_seen)
              checks == {TcpConnect("mqtt.port", ip, probed[i].port) : i \in 1..Len(probed)}
              IsOpen(cfg) == cfg.port \in listening
              IsPlain(cfg) == ~cfg.tls
              open_ports == SelectSeq(probed, IsOpen)
              tls_supported == \E i \in 1..Len(open_ports) : open_ports[i].tls
              plain == SelectSeq(open_ports, IsPlain)
              probe_cfg == IF plain /= <<>> THEN plain[1] ELSE open_ports[1]
              timed_out == reach < Len(DEFAULT_PORTS)
              probing == open_ports /= <<>> /\ ~timed_out /\ ~short
          IN  /\ mqtt_seen' = mqtt_seen \cup
                                {<<ip, probed[i].port>> : i \in 1..Len(probed)}
              /\ net_log' = checks \cup
                    (IF probing THEN {TcpConnect("mqtt.connect", ip, probe_cfg.port)}
                     ELSE {})
              /\ mqtt_results' =
                    IF probing
                    THEN mqtt_results \o probe_broker(ip, probe_cfg, tls_supported, outcome)
                    ELSE mqtt_results
              /\ mqtt_pc' = IF timed_out \/ (open_ports /= <<>> /\ short) THEN "done"
                            ELSE "scan"
    /\ mqtt_ti' = mqtt_ti + 1
    /\ UNCHANGED <<mqtt_targets, exceptMQTT>>

\* The outer loop ends (targets exhausted, or the time is up) and discover
\* returns `results`.
MqttReturn ==
    /\ mqtt_pc = "scan"
    /\ mqtt_pc' = "done"
    /\ net_log' = {}
    /\ UNCHANGED <<mqtt_targets, mqtt_ti, mqtt_seen, mqtt_results, exceptMQTT>>

MQTTNext == MqttScanTarget \/ MqttReturn

SpecMQTT == MQTTInit /\ [][MQTTNext]_vars

(***************************************************************************)
(* Raw discovery records the enrichment pipeline is run on                 *)
(***************************************************************************)
U1 == [k \in {"LOCATION", "SERVER", "address"} |->
         CASE k = "LOCATION" -> "http://cam.lan/d.xml"
           [] k = "SERVER" -> ServerHeader
           [] OTHER -> "192.168.1.20"]
U2 == [k \in {"LOCATION", "address"} |->
         IF k = "LOCATION" THEN MalformedLocation ELSE "192.168.1.20"]
M1 == [name |-> "Office._ipp._tcp.local.", type |-> "_ipp._tcp.local.",
       addresses |-> <<"8.8.8.8">>, port |-> 631,
       properties |-> [k \in {"ty"} |-> "Brother HL"]]
M2 == [name |-> "thing._foo._tcp.local.", type |-> "_foo._tcp.local."]
WsdProbeMatch == "<ProbeMatch Types Scopes XAddrs>"
WsdBroken == "<broken"
W1 == [address |-> "192.168.1.20", response |-> WsdProbeMatch]
W2 == [address |-> "192.168.1.20", response |-> WsdBroken]
Q1 == probe_broker("192.168.1.20", DEFAULT_PORTS[1], FALSE,
                   [kind |-> "accepted", publish |-> TRUE,
                    sys |-> [k \in {SysVersion} |-> "mosquitto version 2.0.15"]])[1]
K1 == coap_result(process_wellknown_response(<<>>, "192.168.1.20", LinkSensor)[1])

Protocols == <<"upnp", "mdns", "wsd", "mqtt", "coap">>
RawPool(proto) ==
    CASE proto = "upnp" -> {U1, U2}
      [] proto = "mdns" -> {M1, M2}
      [] proto = "wsd" -> {W1, W2}
      [] proto = "mqtt" -> {Q1}
      [] proto = "coap" -> {K1}

(***************************************************************************)
(* devices_from_results                                                    *)
(***************************************************************************)
device_from_mdns(raw) ==
    LET addrs == GetOr(raw, "addresses", <<>>)
    IN  DeviceInfo("mdns", IF addrs /= <<>> THEN addrs[1] ELSE "",
                   GetOr(raw, "port", 0), raw, Get(raw, "name"))

device_from_wsd(raw) == DeviceInfo("wsd", GetOr(raw, "address", ""), 0, raw, None)

device_from_mqtt(raw) ==
    DeviceInfo("mqtt", GetOr(raw, "address", ""), GetOr(raw, "port", 1883), raw,
               Get(raw, "broker_name"))

device_from_coap(raw) ==
    DeviceInfo("coap", GetOr(raw, "address", ""), GetOr(raw, "port", 5683), raw,
               Get(raw, "device_type"))

device_from(proto, raw) ==
    CASE proto = "upnp" -> device_from_upnp(raw)
      [] proto = "mdns" -> device_from_mdns(raw)
      [] proto = "wsd" -> device_from_wsd(raw)
      [] proto = "mqtt" -> device_from_mqtt(raw)
      [] proto = "coap" -> device_from_coap(raw)

\* results.get(proto, [])
proto_list(results, proto) == GetOr(results, proto, <<>>)

RECURSIVE devices_from(_, _)
devices_from(results, protos) ==
    IF protos = <<>> THEN <<>>
    ELSE LET proto == Head(protos)
             raws == proto_list(results, proto)
         IN  [k \in 1..Len(raws) |-> device_from(proto, raws[k])]
             \o devices_from(results, Tail(protos))

devices_from_results(results) == devices_from(results, Protocols)

(***************************************************************************)
(* MDNSTxtEnricher                                                         *)
(***************************************************************************)
mdns_txt_can_enrich(device) == device.protocol = "mdns"

\* The first truthy value of txt.get(k) over the keys, else the fallback.
RECURSIVE first_txt(_, _, _)
first_txt(txt, keys, fallback) ==
    IF keys = <<>> THEN fallback
    ELSE IF Truthy(Get(txt, Head(keys))) THEN txt[Head(keys)]
    ELSE first_txt(txt, Tail(keys), fallback)

\* key.lower() on the TXT keys that occur
txt_key(k) == CASE k \in {"ty", "TY"} -> "ty" [] OTHER -> k

\* The dict `txt`: decoded keys, lower-cased, with their decoded values.
txt_records(props) ==
    [k2 \in {txt_key(k) : k \in DOMAIN props} |->
        props[CHOOSE k \in DOMAIN props : txt_key(k) = k2]]

mdns_txt_enrich(device) ==
    LET props == GetOr(device.raw_data, "properties", EmptyDict)
        txt == txt_records(props)
    IN  IF DOMAIN props = {} THEN Returned(device, {})
        ELSE Returned(
               [device EXCEPT
                  !.manufacturer = first_txt(txt, <<"manufacturer", "usb_mfg", "vendor">>, @),
                  !.model = first_txt(txt, <<"ty", "model", "product", "usb_mdl">>, @),
                  !.firmware_version =
                      first_txt(txt, <<"fv", "firmware", "sw", "txtvers">>, @),
                  !.serial_number = first_txt(txt, <<"serialnumber", "sn">>, @),
                  !.device_url = first_txt(txt, <<"adminurl", "url">>, @)],
               {})

(***************************************************************************)
(* WSDMetadataEnricher                                                     *)
(***************************************************************************)
\* A scope URI is a sequence of atoms, pieces of text that the string
\* operations of _parse_wsd_scopes never cut: "/" is an atom of its own.
ScopeName == <<"onvif:", "/", "/", "www.onvif.org", "/", "name", "/", "Cam", "%20", "1">>
ScopeType == <<"onvif:", "/", "/", "www.onvif.org", "/", "type", "/", "video_encoder">>
ScopeHardware == <<"onvif:", "/", "/", "www.onvif.org", "/", "hardware", "/", "HW", "%20", "2">>
ScopeLocation == <<"onvif:", "/", "/", "www.onvif.org", "/", "location", "/", "city">>
ScopeTypeEmpty == <<"onvif:", "/", "/", "www.onvif.org", "/", "type", "/">>
ScopeNameUpper == <<"onvif:", "/", "/", "www.ONVIF.org", "/", "Name", "/", "Cam", "%20", "1">>
ScopeNameNested ==
    <<"onvif:", "/", "/", "www.onvif.org", "/", "name", "/", "Cam", "/", "name", "/", "1">>

\* ET.fromstring and the three find() calls on the SOAP bodies that occur.
wsd_parse(xml) ==
    IF xml = WsdProbeMatch
    THEN [wellformed |-> TRUE, types |-> "dn:NetworkVideoTransmitter",
          scopes |-> <<ScopeName, ScopeType>>,
          xaddrs |-> <<"http://192.168.1.20/onvif/device_service">>]
    ELSE [wellformed |-> FALSE, types |-> None, scopes |-> <<>>, xaddrs |-> <<>>]

\* str.lower() on one atom
lower_atom(a) ==
    CASE a = "www.ONVIF.org" -> "www.onvif.org"
      [] a = "Name" -> "name"
      [] a = "Type" -> "type"
      [] a = "Hardware" -> "hardware"
      [] OTHER -> a
lower(s) == [i \in 1..Len(s) |-> lower_atom(s[i])]

\* ("onvif.org/" + word + "/") in s
has_marker(s, word) ==
    \E i \in 1..Len(s) :
        /\ i + 3 <= Len(s)
        /\ s[i] \in {"www.onvif.org", "onvif.org"}
        /\ s[i + 1] = "/" /\ s[i + 2] = word /\ s[i + 3] = "/"

\* s.split("/" + word + "/")[-1]: the separator is looked for from the left,
\* in the text as it is written; without it the whole text is the last piece.
RECURSIVE split_last(_, _, _)
split_last(s, word, from) ==
    IF \E i \in from..Len(s) : i + 2 <= Len(s) /\ s[i] = "/" /\ s[i + 1] = word /\ s[i + 2] = "/"
    THEN LET i == CHOOSE i \in from..Len(s) :
                    /\ i + 2 <= Len(s) /\ s[i] = "/" /\ s[i + 1] = word /\ s[i + 2] = "/"
                    /\ \A j \in from..(i - 1) :
                          ~(s[j] = "/" /\ s[j + 1] = word /\ s[j + 2] = "/")
         IN  split_last(s, word, i + 3)
    ELSE SubSeq(s, from, Len(s))

\* .replace("%20", " ")
replace_percent20(s) == [i \in 1..Len(s) |-> IF s[i] = "%20" THEN " " ELSE s[i]]

\* The atoms written out as one str.
RECURSIVE text_of(_)
text_of(s) == IF s = <<>> THEN "" ELSE Head(s) \o text_of(Tail(s))

\* One scope URI: which branch of _parse_wsd_scopes it takes, and the value
\* that the branch stores.
scope_kind(scope) ==
    IF has_marker(lower(scope), "name") THEN "name"
    ELSE IF has_marker(lower(scope), "hardware") THEN "hardware"
    ELSE IF has_marker(lower(scope), "type") THEN "type"
    ELSE "other"
scope_value(scope) ==
    CASE scope_kind(scope) = "name" ->
            text_of(replace_percent20(split_last(scope, "name", 1)))
      [] scope_kind(scope) = "hardware" ->
            text_of(replace_percent20(split_last(scope, "hardware", 1)))
      [] scope_kind(scope) = "type" -> text_of(split_last(scope, "type", 1))
      [] OTHER -> ""

RECURSIVE parse_wsd_scopes(_, _)
parse_wsd_scopes(device, scopes) ==
    IF scopes = <<>> THEN device
    ELSE LET scope == Head(scopes)
             kind == scope_kind(scope)
             value == scope_value(scope)
             d1 == CASE kind = "name" -> [device EXCEPT !.friendly_name = value]
                     [] kind = "hardware" -> [device EXCEPT !.model = value]
                     [] kind = "type" /\ value /= "" /\ ~InList(value, device.device_tags) ->
                           [device EXCEPT !.device_tags = Append(@, value)]
                     [] OTHER -> device
         IN  parse_wsd_scopes(d1, Tail(scopes))

wsd_can_enrich(device) ==
    device.protocol = "wsd" /\ Truthy(Get(device.raw_data, "response"))

wsd_enrich(device) ==
    LET xml == GetOr(device.raw_data, "response", "")
        doc == wsd_parse(xml)
        d1 == IF Truthy(doc.types)
              THEN [device EXCEPT !.friendly_name = Or(@, doc.types)] ELSE device
        d2 == parse_wsd_scopes(d1, doc.scopes)
        d3 == IF doc.xaddrs /= <<>> THEN [d2 EXCEPT !.device_url = doc.xaddrs[1]] ELSE d2
    IN  IF ~Truthy(xml) THEN Returned(device, {})
        ELSE IF ~doc.wellformed
        THEN Returned(WithError(device, <<"wsd_metadata", "ParseError">>), {})
        ELSE Returned(d3, {})

(***************************************************************************)
(* MQTTBrokerEnricher, CoAPResourceEnricher                                *)
(***************************************************************************)
mqtt_can_enrich(device) == device.protocol = "mqtt"

\* The vendor branch taken on version_str.lower().
broker_vendor(version) ==
    IF version = "mosquitto version 2.0.15"
    THEN [manufacturer |-> "Eclipse Foundation", model |-> "Mosquitto"]
    ELSE [manufacturer |-> None, model |-> None]

mqtt_enrich(device) ==
    LET metadata == GetOr(device.raw_data, "metadata", EmptyDict)
        version == GetOr(metadata, SysVersion, "")
        vendor == broker_vendor(version)
        d1 == IF version /= ""
              THEN [device EXCEPT
                      !.manufacturer = IF Truthy(vendor.manufacturer)
                                       THEN vendor.manufacturer ELSE @,
                      !.model = IF Truthy(vendor.model) THEN vendor.model ELSE @,
                      !.firmware_version = version]
              ELSE device
        svc == [port |-> IF device.port /= 0 THEN device.port ELSE 1883,
                name |-> "MQTT", banner |-> version,
                tls |-> GetOr(device.raw_data, "tls_supported", FALSE)]
    IN  Returned([d1 EXCEPT
                    !.friendly_name = Or(Get(device.raw_data, "broker_name"), @),
                    !.services = Append(@, svc)],
                 {})

coap_can_enrich(device) == device.protocol = "coap"

\* rt.split("oic.d.")[-1] on the resource types that occur
oic_suffix(rt) == IF rt = "oic.d.sensor" THEN "sensor" ELSE ""
has_oic_d(rt) == rt \in {"oic.d.sensor", "oic.d."}
has_oic_wk_d(rt) == rt \in {"oic.wk.d"}

\* f"CoAP:{uri}" and f"rt={rt}" on the values that occur
coap_service_name(uri) ==
    CASE uri = "/temp" -> "CoAP:/temp" [] uri = "/light" -> "CoAP:/light" [] OTHER -> "CoAP:"
coap_service_banner(rt) ==
    CASE rt = "oic.d.sensor" -> "rt=oic.d.sensor" [] rt = "light" -> "rt=light"
      [] OTHER -> "rt="

RECURSIVE coap_resources(_, _)
coap_resources(device, resources) ==
    IF resources = <<>> THEN device
    ELSE LET res == Head(resources)
             rt == IF Truthy(Get(res, "rt")) THEN res["rt"] ELSE ""
             d1 == IF has_oic_d(rt) THEN [device EXCEPT !.device_category = oic_suffix(rt)]
                   ELSE IF has_oic_wk_d(rt)
                   THEN [device EXCEPT !.device_category = "ocf-device"]
                   ELSE device
             svc == [port |-> IF device.port /= 0 THEN device.port ELSE 5683,
                     name |-> coap_service_name(res["uri"]),
                     banner |-> IF rt /= "" THEN coap_service_banner(rt) ELSE "",
                     tls |-> FALSE]
             d2 == IF Truthy(Get(res, "uri")) /\ GetOr(res, "observable", FALSE)
                   THEN [d1 EXCEPT !.services = Append(@, svc)] ELSE d1
         IN  coap_resources(d2, Tail(resources))

coap_enrich(device) ==
    LET d1 == coap_resources(device, GetOr(device.raw_data, "resources", <<>>))
    IN  Returned([d1 EXCEPT !.friendly_name = Or(Get(device.raw_data, "device_type"), @)],
                 {})

(***************************************************************************)
(* ServerHeaderFingerprinter                                               *)
(***************************************************************************)
\* _match_os: the first pattern of _OS_PATTERNS that matches, on the texts
\* that occur.
match_os(text) ==
    CASE text = ServerHeader -> "Linux"
      [] text = "nginx/1.18.0 (Ubuntu)" -> "Linux (Ubuntu)"
      [] OTHER -> None

\* Banners a port may answer with, and the `Server:` lines among their lines.
SshBanner == "SSH-2.0-dropbear_2019.78"
HttpBanner == "HTTP/1.0 200 OK Server: nginx/1.18.0 (Ubuntu)"
server_lines(banner_text) ==
    IF banner_text = HttpBanner THEN <<"nginx/1.18.0 (Ubuntu)">> ELSE <<>>

\* The values of a dict in the order of its integer keys (insertion order
\* of device.banners is the order of the scanned ports).
RECURSIVE values_by_port(_, _)
values_by_port(banners, ports) ==
    IF ports = <<>> THEN <<>>
    ELSE (IF Head(ports) \in DOMAIN banners THEN <<banners[Head(ports)]>> ELSE <<>>)
         \o values_by_port(banners, Tail(ports))

RECURSIVE Flatten(_)
Flatten(seqs) == IF seqs = <<>> THEN <<>> ELSE Head(seqs) \o Flatten(Tail(seqs))

RECURSIVE first_os(_)
first_os(candidates) ==
    IF candidates = <<>> THEN None
    ELSE IF Truthy(match_os(Head(candidates))) THEN match_os(Head(candidates))
    ELSE first_os(Tail(candidates))

(***************************************************************************)
(* BannerGrabber                                                           *)
(***************************************************************************)
BANNER_PORTS == <<21, 22, 23, 80, 443, 554, 1883, 8080, 8443, 8883>>
MAX_BANNER_LEN == 512

banner_port_name(port) ==
    CASE port = 21 -> "FTP" [] port = 22 -> "SSH" [] port = 23 -> "Telnet"
      [] port = 80 -> "HTTP" [] port = 443 -> "HTTPS" [] port = 554 -> "RTSP"
      [] port = 1883 -> "MQTT" [] port = 8080 -> "HTTP-Alt"
      [] port = 8443 -> "HTTPS-Alt" [] port = 8883 -> "MQTT-TLS"
      [] OTHER -> "Port-" \o ToString(port)
banner_port_tls(port) == port \in {443, 8443, 8883}

InSeq(x, seq) == \E i \in 1..Len(seq) : seq[i] = x

\* ports_to_scan: the curated ports, then the device's own port if new.
ports_to_scan(device) ==
    IF device.port /= 0 /\ ~InSeq(device.port, BANNER_PORTS)
    THEN Append(BANNER_PORTS, device.port) ELSE BANNER_PORTS

\* What the hosts answer: port -> [text, len] of the stripped reply; a port
\* that is absent refuses, times out or sends nothing.
BannerReply(text, len) == [text |-> text, len |-> len]
LongBanner == "AAAA...(600 bytes)"
LongBannerCut == "AAAA...(512 bytes)..."
BannerAnswers ==
    { EmptyDict,
      [p \in {22} |-> BannerReply(SshBanner, 24)],
      [p \in {23, 80} |-> IF p = 80 THEN BannerReply(HttpBanner, 46)
                          ELSE BannerReply(LongBanner, 600)] }

\* banner[:MAX_BANNER_LEN] + "..." when the reply is longer
truncate_banner(reply) ==
    IF reply.len > MAX_BANNER_LEN
    THEN (IF reply.text = LongBanner THEN LongBannerCut ELSE reply.text)
    ELSE reply.text

banner_can_enrich(device) == Truthy(device.address)

RECURSIVE grab_ports(_, _, _)
grab_ports(device, ports, answers) ==
    IF ports = <<>> THEN device
    ELSE LET port == Head(ports)
             banner == truncate_banner(answers[port])
             svc == [port |-> port, name |-> banner_port_name(port), banner |-> banner,
                     tls |-> banner_port_tls(port),
                     tls_version |-> IF banner_port_tls(port) THEN "TLSv1.3" ELSE None]
             d1 == IF port \in DOMAIN answers
                   THEN [device EXCEPT !.banners = Put(@, port, banner),
                                       !.services = Append(@, svc)]
                   ELSE device
         IN  grab_ports(d1, Tail(ports), answers)

banner_enrich(device, answers) ==
    LET ports == ports_to_scan(device)
    IN  Returned(grab_ports(device, ports, answers),
                 {TcpConnect("banner_grabber", device.address, ports[i]) :
                    i \in 1..Len(ports)})

\* The fingerprinter proper (it reads device.banners in port order).
fingerprint_can_enrich(device) ==
    Truthy(Get(device.raw_data, "SERVER")) \/ DOMAIN device.banners /= {}

fingerprint_enrich(device) ==
    LET server == GetOr(device.raw_data, "SERVER", "")
        texts == values_by_port(device.banners, ports_to_scan(device))
        candidates == (IF Truthy(server) THEN <<server>> ELSE <<>>)
                      \o Flatten([i \in 1..Len(texts) |-> server_lines(texts[i])])
        guess == first_os(candidates)
    IN  Returned(IF Truthy(guess) THEN [device EXCEPT !.os_guess = guess] ELSE device, {})

(***************************************************************************)
(* DeviceClassifier                                                        *)
(***************************************************************************)
\* TAXONOMY_RULES sorted by descending priority (the sort is stable).
RuleOrder ==
    <<"camera", "nas", "printer", "smart-home-hub", "mqtt-broker", "coap-device",
      "media", "router", "smart-speaker", "industrial", "smart-tv", "iot-device",
      "computer">>

rule_tags(category) ==
    CASE category = "camera" -> <<"surveillance", "video", "onvif">>
      [] category = "nas" -> <<"storage", "file-server">>
      [] category = "printer" -> <<"printing">>
      [] category = "smart-home-hub" -> <<"smart-home", "automation">>
      [] category = "mqtt-broker" -> <<"iot", "messaging", "mqtt">>
      [] category = "coap-device" -> <<"iot", "constrained", "coap">>
      [] category = "media" -> <<"streaming", "entertainment">>
      [] category = "router" -> <<"networking", "infrastructure">>
      [] category = "smart-speaker" -> <<"voice-assistant", "smart-home">>
      [] category = "industrial" -> <<"iot", "scada", "plc">>
      [] category = "smart-tv" -> <<"display", "entertainment">>
      [] category = "iot-device" -> <<"iot", "embedded">>
      [] category = "computer" -> <<"workstation">>

\* The rules one of whose patterns is found in the text, for the texts that
\* occur in a search blob.
text_hits(text) ==
    CASE text \in {"Hikvision", ServerHeader, "dn:NetworkVideoTransmitter", "onvif",
                   "RTSP"} -> {"camera"}
      [] text \in {"Brother HL", "Office._ipp._tcp.local."} -> {"printer"}
      [] text \in {"Mosquitto", "mosquitto version 2.0.15"} -> {"mqtt-broker"}
      [] text \in {"CoAP:/temp", "CoAP:/light", "rt=oic.d.sensor", "coap"} -> {"coap-device"}
      [] text \in {"MQTT", "MQTT-TLS", "mqtt"} -> {"iot-device"}
      [] text \in {"embedded"} -> {"coap-device"}
      [] text \in {"scada", "plc"} -> {"industrial"}
      [] text = "Home Assistant Mosquitto" -> {"smart-home-hub", "mqtt-broker"}
      [] text = "Plex Gateway" -> {"media", "router"}
      [] text = "Echo PLC" -> {"smart-speaker", "industrial"}
      [] OTHER -> {}

\* The same for str(device.raw_data).
raw_hits(raw) ==
    CASE raw = U1 -> {"camera"}
      [] raw = W1 -> {"camera"}
      [] raw = M1 -> {"printer"}
      [] raw = Q1 -> {"mqtt-broker"}
      [] raw = K1 -> {"coap-device"}
      [] OTHER -> {}

\* The same for str(svc) of a service descriptor.
svc_hits(svc) == text_hits(svc.name) \cup text_hits(svc.banner)

\* _build_search_blob, as the set of rules that match the blob.
blob_hits(device) ==
    LET banners == values_by_port(device.banners, ports_to_scan(device))
    IN  text_hits(device.friendly_name) \cup text_hits(device.manufacturer)
        \cup text_hits(device.model) \cup text_hits(device.firmware_version)
        \cup text_hits(device.os_guess) \cup raw_hits(device.raw_data)
        \cup UNION {text_hits(banners[i]) : i \in 1..Len(banners)}
        \cup UNION {svc_hits(device.services[i]) : i \in 1..Len(device.services)}
        \cup UNION {text_hits(device.device_tags[i]) : i \in 1..Len(device.device_tags)}

\* The first rule in priority order that matches, None when none does.
RECURSIVE first_rule(_, _)
first_rule(rules, hits) ==
    IF rules = <<>> THEN None
    ELSE IF Head(rules) \in hits THEN Head(rules)
    ELSE first_rule(Tail(rules), hits)

ToSet(seq) == {seq[i] : i \in 1..Len(seq)}

\* list(set(tags)): the elements once each, in an order that the hash seed
\* of the interpreter decides.  The model keeps the value as the set itself:
\* a list whose order is not determined.
list_of_set(tags) == ToSet(tags)

category_as_is(category) == category

\* `device.device_category or "unknown"`
category_or_unknown(category) == IF Truthy(category) THEN category ELSE "unknown"

classifier_can_enrich(device) == TRUE

\* enrich, given self._rules
enrich_with_rules(rules, device) ==
    LET rule == first_rule(rules, blob_hits(device))
    IN  IF rule /= None
        THEN Returned([device EXCEPT
                         !.device_category = rule,
                         !.device_tags = list_of_set(@ \o rule_tags(rule))],
                      {})
        ELSE Returned([device EXCEPT
                         !.device_category = category_or_unknown(@)],
                      {})

\* The classifier of the default pipeline: DeviceClassifier().
classifier_enrich(device) == enrich_with_rules(RuleOrder, device)

(***************************************************************************)
(* build_default_pipeline and EnrichmentPipeline.enrich_device             *)
(***************************************************************************)
StageNames ==
    <<"upnp_deep", "mdns_txt", "wsd_metadata", "mqtt_broker", "coap_resource",
      "server_header_fingerprint", "banner_grabber", "device_classifier">>

\* What the network contributes to one run of enrich_device: the resolver's
\* answer, the HTTP server's answer and the banners of the host.
NetEnvs ==
    [dns : {"192.168.1.20", "8.8.8.8"},
     http : {NetError,
             HttpResponse(200, "text/xml; charset=utf-8", 512, XmlFull),
             HttpResponse(200, "text/html", 512, XmlFull)},
     answers : BannerAnswers]

can_enrich(name, device) ==
    CASE name = "upnp_deep" -> upnp_deep_can_enrich(device)
      [] name = "mdns_txt" -> mdns_txt_can_enrich(device)
      [] name = "wsd_metadata" -> wsd_can_enrich(device)
      [] name = "mqtt_broker" -> mqtt_can_enrich(device)
      [] name = "coap_resource" -> coap_can_enrich(device)
      [] name = "server_header_fingerprint" -> fingerprint_can_enrich(device)
      [] name = "banner_grabber" -> banner_can_enrich(device)
      [] name = "device_classifier" -> classifier_can_enrich(device)

enrich(name, device, env) ==
    CASE name = "upnp_deep" -> upnp_deep_enrich(device, env.dns, env.http)
      [] name = "mdns_txt" -> mdns_txt_enrich(device)
      [] name = "wsd_metadata" -> wsd_enrich(device)
      [] name = "mqtt_broker" -> mqtt_enrich(device)
      [] name = "coap_resource" -> coap_enrich(device)
      [] name = "server_header_fingerprint" -> fingerprint_enrich(device)
      [] name = "banner_grabber" -> banner_enrich(device, env.answers)
      [] name = "device_classifier" -> classifier_enrich(device)

\* The run of enrich_device so far: the device, the stages offered the
\* device (with whether each raised), and the I/O performed.
RECURSIVE run_stages(_, _, _)
run_stages(run, names, env) ==
    IF names = <<>> THEN run
    ELSE LET name == Head(names)
             outcome == IF can_enrich(name, run.device)
                        THEN enrich(name, run.device, env)
                        ELSE Returned(run.device, {})
         IN  run_stages([device |-> stage_step(name, run.device, outcome),
                         offered |-> Append(run.offered,
                                            [name |-> name, raised |-> outcome.raised]),
                         io |-> run.io \cup outcome.io],
                        Tail(names), env)

Submitted(device) == [device |-> device, offered |-> <<>>, io |-> {}]

enrich_device(device, env) == run_stages(Submitted(device), StageNames, env)

(***************************************************************************)
(* enrich_all, fingerprint_dict, apply_enrichment                          *)
(***************************************************************************)
\* The futures are collected as they complete.  A DeviceInfo is an object:
\* the lists hold object numbers, pipe_devices the objects themselves.
first_free(results) == CHOOSE k \in 1..Len(results) :
                          results[k] = 0 /\ \A j \in 1..(k - 1) : results[j] /= 0

collect_in_completion_order(results, idx, future) ==
    [results EXCEPT ![first_free(results)] = IF future.raised THEN idx ELSE future.value]

\* results[idx] = future.result(), or devices[idx] when it raised
collect(results, idx, future) ==
    [results EXCEPT ![idx] = IF future.raised THEN idx ELSE future.value]

NotNone(r) == r /= 0

\* {str(k): v for k, v in dev.banners.items()}
banners_by_str(banners) ==
    [k \in {ToString(port) : port \in DOMAIN banners} |->
        banners[CHOOSE port \in DOMAIN banners : ToString(port) = k]]

fingerprint_dict(dev) ==
    [manufacturer |-> dev.manufacturer, model |-> dev.model,
     firmware_version |-> dev.firmware_version, serial_number |-> dev.serial_number,
     device_url |-> dev.device_url, device_category |-> dev.device_category,
     device_tags |-> dev.device_tags, os_guess |-> dev.os_guess,
     services |-> dev.services, banners |-> banners_by_str(dev.banners)]

apply_index_global(counters, proto) ==
    counters["upnp"] + counters["mdns"] + counters["wsd"] + counters["mqtt"]
    + counters["coap"]

\* idx = counters.get(proto, 0)
apply_index(counters, proto) == GetOr(counters, proto, 0)

RECURSIVE apply_loop(_, _, _)
apply_loop(results, counters, enriched) ==
    IF enriched = <<>> THEN results
    ELSE LET dev == Head(enriched)
             proto == dev.protocol
             idx == apply_index(counters, proto)
             lst == proto_list(results, proto)
             r1 == IF idx < Len(lst)
                   THEN [results EXCEPT ![proto] =
                           [lst EXCEPT ![idx + 1] =
                               Put(@, "fingerprint", fingerprint_dict(dev))]]
                   ELSE results
         IN  apply_loop(r1, Put(counters, proto, idx + 1), Tail(enriched))

apply_enrichment(results, enriched) ==
    apply_loop(results, [p \in ToSet(Protocols) |-> 0], enriched)

(***************************************************************************)
(* SpecPipe: the enrichment of a scan (main.discover, `if query.enrich`)   *)
(***************************************************************************)
MaxDevices == 2

\* Lists of distinct records of a protocol.
RawLists(proto) ==
    UNION { {l \in [1..n -> RawPool(proto)] : \A i, j \in 1..n : i /= j => l[i] /= l[j]}
            : n \in 0..MaxDevices }

RECURSIVE SumLen(_, _)
SumLen(results, protos) ==
    IF protos = <<>> THEN 0
    ELSE Len(results[Head(protos)]) + SumLen(results, Tail(protos))

ScanResults ==
    {r \in [upnp : RawLists("upnp"), mdns : RawLists("mdns"), wsd : RawLists("wsd"),
            mqtt : RawLists("mqtt"), coap : RawLists("coap")] :
        SumLen(r, Protocols) <= MaxDevices}

PipeInit ==
    /\ net_log = {}
    /\ UPnPIdle /\ CoAPIdle /\ MQTTIdle /\ ApiIdle /\ MDNSIdle /\ ProbeIdle /\ CodecIdle /\ ClassifyIdle /\ StagesIdle /\ SockIdle /\ GrabIdle /\ TimeIdle /\ WorkersIdle /\ EnumIdle /\ BannerIdle /\ PortsIdle /\ ScopesIdle /\ ReaderIdle /\ RateIdle
    /\ pipe_pc = "convert"
    /\ scan_results \in ScanResults
    /\ pipe_devices = <<>>
    /\ pipe_state = <<>>
    /\ pipe_offered = <<>>
    /\ pipe_results = <<>>
    /\ pipe_enriched = <<>>

\* devices_from_results, then enrich_all up to the submission of every device
\* to the pool (or its early return on an empty list).
PipeConvert ==
    /\ pipe_pc = "convert"
    /\ LET devices == devices_from_results(scan_results)
       IN  /\ pipe_devices' = devices
           /\ pipe_state' = [i \in 1..Len(devices) |-> "queued"]
           /\ pipe_offered' = [i \in 1..Len(devices) |-> <<>>]
           /\ pipe_results' = [i \in 1..Len(devices) |-> 0]
           /\ pipe_pc' = IF devices = <<>> THEN "returned" ELSE "run"
    /\ pipe_enriched' = <<>>
    /\ net_log' = {}
    /\ UNCHANGED <<scan_results, exceptPipe>>

\* A worker thread runs enrich_device on its device.
PipeWorker ==
    /\ pipe_pc = "run"
    /\ \E i \in 1..Len(pipe_devices), net \in NetEnvs :
          /\ pipe_state[i] = "queued"
          /\ \E run \in {enrich_device(pipe_devices[i], net)} :
                 /\ pipe_devices' = [pipe_devices EXCEPT ![i] = run.device]
                 /\ pipe_offered' = [pipe_offered EXCEPT ![i] = run.offered]
                 /\ net_log' = run.io
          /\ pipe_state' = [pipe_state EXCEPT ![i] = "finished"]
    /\ UNCHANGED <<pipe_pc, scan_results, pipe_results, pipe_enriched, exceptPipe>>

\* as_completed yields a completed future; its result is stored.
PipeCollect ==
    /\ pipe_pc = "run"
    /\ \E i \in 1..Len(pipe_devices) :
          /\ pipe_state[i] \in {"finished", "raised"}
          /\ pipe_results' = collect(pipe_results, i,
                                     [raised |-> pipe_state[i] = "raised", value |-> i])
          /\ pipe_state' = [pipe_state EXCEPT ![i] = "collected"]
    /\ net_log' = {}
    /\ UNCHANGED <<pipe_pc, scan_results, pipe_devices, pipe_offered, pipe_enriched,
                   exceptPipe>>

\* Every future was collected: enrich_all returns the non-None results.
PipeReturn ==
    /\ pipe_pc = "run"
    /\ \A i \in 1..Len(pipe_devices) : pipe_state[i] = "collected"
    /\ pipe_enriched' = SelectSeq(pipe_results, NotNone)
    /\ pipe_pc' = "returned"
    /\ net_log' = {}
    /\ UNCHANGED <<scan_results, pipe_devices, pipe_state, pipe_offered, pipe_results,
                   exceptPipe>>

\* results = apply_enrichment(results, enriched)
PipeApply ==
    /\ pipe_pc = "returned"
    /\ scan_results' =
          apply_enrichment(scan_results,
                           [k \in 1..Len(pipe_enriched) |-> pipe_devices[pipe_enriched[k]]])
    /\ pipe_pc' = "applied"
    /\ net_log' = {}
    /\ UNCHANGED <<pipe_devices, pipe_state, pipe_offered, pipe_results, pipe_enriched,
                   exceptPipe>>

PipeNext == PipeConvert \/ PipeWorker \/ PipeCollect \/ PipeReturn \/ PipeApply

SpecPipe == PipeInit /\ [][PipeNext]_vars

(***************************************************************************)
(* Response models (schemas.py): DiscoverResponse of results.model_dump()  *)
(***************************************************************************)
\* A model keeps its declared fields, each present in the dump, and drops
\* any other key of the record.
model_fields(proto) ==
    CASE proto = "upnp" -> {"address", "name", "type", "LOCATION", "USN", "SERVER", "ST"}
      [] proto = "mdns" -> {"name", "type", "addresses", "port", "properties"}
      [] proto = "wsd" -> {"address", "response"}
      [] proto = "mqtt" -> {"address", "port", "broker_name", "broker_version",
                            "anonymous_access", "tls_supported", "anonymous_publish",
                            "connected_clients", "uptime_seconds", "messages_received",
                            "messages_sent", "sampled_topics", "topic_count",
                            "risk_flags", "metadata"}
      [] proto = "coap" -> {"address", "port", "resources", "device_type", "firmware",
                            "dtls_supported", "unauthenticated_access",
                            "observable_resources", "risk_flags", "metadata"}

\* ServiceInfo: tls_version is None unless the descriptor carries one.
service_info(svc) ==
    [port |-> svc.port, name |-> svc.name, banner |-> svc.banner, tls |-> svc.tls,
     tls_version |-> Get(svc, "tls_version")]

\* DeviceFingerprint
fingerprint_model(fp) ==
    [fp EXCEPT !.services = [i \in 1..Len(@) |-> service_info(@[i])]]

\* The dump of one record; a field the record lacks is None (the fields that
\* have another default are always present in the engines' records).
model_dump(proto, rec) ==
    [f \in model_fields(proto) \cup {"fingerprint"} |->
        IF f = "fingerprint"
        THEN (IF f \in DOMAIN rec THEN fingerprint_model(rec[f]) ELSE None)
        ELSE Get(rec, f)]

DiscoverResponse(results) ==
    [proto \in ToSet(Protocols) |->
        LET lst == proto_list(results, proto)
        IN  [k \in 1..Len(lst) |-> model_dump(proto, lst[k])]]

(***************************************************************************)
(* SpecApi: main.discover                                                  *)
(***************************************************************************)
MaxRecords == 1

\* The `protocol` and `interface_ip` query parameters a client may send.
ProtocolParams == {"all", "upnp", "mdns", "wsd", "mqtt", "coap", " UPnP ", "zigbee"}
InterfaceParams == {None, "", "127.0.0.1", "192.168.1.20", "eth0"}

\* constr(strip_whitespace=True, to_lower=True)
normalize(protocol) == IF protocol = " UPnP " THEN "upnp" ELSE protocol

\* pattern="^(all|upnp|mdns|wsd|mqtt|coap)$"
matches_pattern(protocol) == protocol \in {"all", "upnp", "mdns", "wsd", "mqtt", "coap"}

\* ipaddress.ip_address(s) raises ValueError
not_an_ip(s) == s \notin IPLiterals

interface_ip_refused_if_invalid(ip) == Truthy(ip) /\ not_an_ip(ip)

\* The `if query.interface_ip:` block: TRUE when it raises HTTPException(400).
interface_ip_refused(ip) == Truthy(ip) /\ (not_an_ip(ip) \/ is_loopback(ip))

\* A socket an engine opens, bound to interface_ip when one is given.
Socket(by, interface_ip) == [ev |-> "socket", by |-> by, bind |-> interface_ip]

\* What an engine's discover() may return.
EngineRecords(proto) ==
    UNION { {l \in [1..n -> RawPool(proto)] : \A i, j \in 1..n : i /= j => l[i] /= l[j]}
            : n \in 0..MaxRecords }

ApiInit ==
    /\ net_log = {}
    /\ UPnPIdle /\ CoAPIdle /\ MQTTIdle /\ PipeIdle /\ MDNSIdle /\ ProbeIdle /\ CodecIdle /\ ClassifyIdle /\ StagesIdle /\ SockIdle /\ GrabIdle /\ TimeIdle /\ WorkersIdle /\ EnumIdle /\ BannerIdle /\ PortsIdle /\ ScopesIdle /\ ReaderIdle /\ RateIdle
    /\ api_pc = "request"
    /\ api_request \in [protocol : ProtocolParams, interface_ip : InterfaceParams,
                        enrich : BOOLEAN]
    /\ api_query = <<>>
    /\ api_status = 0
    /\ api_results = <<>>
    /\ api_ran = <<>>
    /\ api_response = <<>>

\* DiscoverQuery(...) and the interface_ip check, up to `results = {...}`.
ApiValidate ==
    /\ api_pc = "request"
    /\ LET protocol == normalize(api_request.protocol)
           refused == \/ ~matches_pattern(protocol)
                      \/ interface_ip_refused(api_request.interface_ip)
       IN  /\ api_status' = IF refused THEN 400 ELSE 0
           /\ api_pc' = IF refused THEN "done" ELSE "upnp"
           /\ api_query' = IF refused THEN api_query
                           ELSE [api_request EXCEPT !.protocol = protocol]
           /\ api_results' = IF refused THEN api_results
                             ELSE [upnp |-> <<>>, mdns |-> <<>>, wsd |-> <<>>]
    /\ net_log' = {}
    /\ UNCHANGED <<api_request, api_ran, api_response, exceptApi>>

\* One `if query.protocol in ("all", p):` block.
Dispatch(proto, next) ==
    /\ api_pc' = next
    /\ IF api_query.protocol \in {"all", proto}
       THEN \E records \in EngineRecords(proto) :
               /\ api_results' = [api_results EXCEPT ![proto] = records]
               /\ api_ran' = Append(api_ran, proto)
               /\ net_log' = {Socket(proto, api_query.interface_ip)}
       ELSE /\ net_log' = {}
            /\ UNCHANGED <<api_results, api_ran>>
    /\ UNCHANGED <<api_request, api_query, api_status, api_response, exceptApi>>

\* UPnP discovery
ApiUPnP ==
    /\ api_pc = "upnp"
    /\ Dispatch("upnp", "mdns")

\* mDNS discovery
ApiMDNS ==
    /\ api_pc = "mdns"
    /\ Dispatch("mdns", "wsd")

\* WS-Discovery
ApiWSD ==
    /\ api_pc = "wsd"
    /\ Dispatch("wsd", "enrich")

\* The `if query.enrich:` block; the hosts of one scan share a resolver and
\* answer alike.
ApiEnrich ==
    /\ api_pc = "enrich"
    /\ api_pc' = "respond"
    /\ IF api_query.enrich
       THEN \E net \in NetEnvs :
               LET device_infos == devices_from_results(api_results)
                   runs == [i \in 1..Len(device_infos) |->
                               enrich_device(device_infos[i], net)]
                   enriched == [i \in 1..Len(runs) |-> runs[i].device]
               IN  /\ api_results' = apply_enrichment(api_results, enriched)
                   /\ net_log' = UNION {runs[i].io : i \in 1..Len(runs)}
       ELSE /\ net_log' = {}
            /\ UNCHANGED api_results
    /\ UNCHANGED <<api_request, api_query, api_status, api_ran, api_response, exceptApi>>

\* return JSONResponse(content=DiscoverResponse of results.model_dump())
ApiRespond ==
    /\ api_pc = "respond"
    /\ api_response' = DiscoverResponse(api_results)
    /\ api_status' = 200
    /\ api_pc' = "done"
    /\ net_log' = {}
    /\ UNCHANGED <<api_request, api_query, api_results, api_ran, exceptApi>>

ApiNext == ApiValidate \/ ApiUPnP \/ ApiMDNS \/ ApiWSD \/ ApiEnrich \/ ApiRespond

SpecApi == ApiInit /\ [][ApiNext]_vars

(***************************************************************************)
(* MDNSDiscovery: one Zeroconf instance, one ServiceBrowser per service    *)
(* type, one listener shared by the browsers                               *)
(***************************************************************************)
SERVICES_META == "_services._dns-sd._udp.local."
IppType == "_ipp._tcp.local."
BadType == "not a service type"
ServiceTypePool == {SERVICES_META, IppType, BadType}

\* ServiceBrowser(zeroconf, svc_type, listener): a malformed type raises
\* BadTypeInNameException; any type can fail with another exception.
BrowserOutcomes(svc_type) ==
    IF svc_type = BadType THEN {"BadTypeInNameException"} ELSE {"ok", "OSError"}

\* socket.inet_ntoa on a packed IPv4 address.
inet_ntoa(packed) ==
    ToString(packed[1]) \o "." \o ToString(packed[2]) \o "." \o
    ToString(packed[3]) \o "." \o ToString(packed[4])

\* What zeroconf.get_service_info can give: an exception, None, or a
\* ServiceInfo with or without addresses.
ServiceInfos ==
    { [kind |-> "raise"], [kind |-> "none"],
      [kind |-> "info", addresses |-> << <<192, 168, 1, 20>>, <<10, 0, 0, 7>> >>,
       port |-> 631, properties |-> [k \in {"ty"} |-> "Brother HL"]],
      [kind |-> "info", addresses |-> <<>>, port |-> 80,
       properties |-> [k \in {} |-> ""]] }

resolve(service_type, name, info) ==
    IF service_type = SERVICES_META THEN [name |-> name, type |-> service_type]
    ELSE IF info.kind = "info"
         THEN [name |-> name, type |-> service_type,
               addresses |-> [i \in 1..Len(info.addresses) |->
                                 inet_ntoa(info.addresses[i])],
               port |-> info.port, properties |-> info.properties]
         ELSE [name |-> name, type |-> service_type]

\* self.services[name] = value on an insertion-ordered dict.
services_set(services, name, value) ==
    IF \E i \in 1..Len(services) : services[i].key = name
    THEN [i \in 1..Len(services) |->
             IF services[i].key = name THEN [key |-> name, value |-> value]
             ELSE services[i]]
    ELSE Append(services, [key |-> name, value |-> value])

services_values(services) == [i \in 1..Len(services) |-> services[i].value]

add_service(services, service_type, name, info) ==
    services_set(services, name, resolve(service_type, name, info))

update_service(services, service_type, name, info) ==
    services_set(services, name, resolve(service_type, name, info))

remove_service_deletes(services, service_type, name) ==
    SelectSeq(services, LAMBDA e : e.key /= name)

remove_service(services, service_type, name) == services

\* Number of close() calls after the try statement of discover was left,
\* normally or by an exception.
close_unless_raised(closes, raised) == IF raised THEN closes ELSE closes + 1

finally_close(closes, raised) == closes + 1

MaxTypes == 2
MaxEvents == 2
ServiceNames == {"Office._ipp._tcp.local.", "Lab._ipp._tcp.local."}
TypeLists == UNION {[1..n -> ServiceTypePool] : n \in 1..MaxTypes}

MDNSInit ==
    /\ mdns_pc = "create"
    /\ mdns_types \in TypeLists
    /\ mdns_ti = 0 /\ mdns_resolvers = 0 /\ mdns_closes = 0
    /\ mdns_browsers = <<>> /\ mdns_services = <<>>
    /\ mdns_events = <<>> /\ mdns_result = <<>>
    /\ net_log = {}
    /\ UPnPIdle /\ CoAPIdle /\ MQTTIdle /\ PipeIdle /\ ApiIdle /\ ProbeIdle /\ CodecIdle /\ ClassifyIdle /\ StagesIdle /\ SockIdle /\ GrabIdle /\ TimeIdle /\ WorkersIdle /\ EnumIdle /\ BannerIdle /\ PortsIdle /\ ScopesIdle /\ ReaderIdle /\ RateIdle

\* Zeroconf(...) is constructed; if the constructor raises, discover returns
\* the empty list.
MdnsCreate ==
    /\ mdns_pc = "create"
    /\ \E interface_ip \in {None, "192.168.1.20"}, ok \in BOOLEAN :
          /\ net_log' = {[ev |-> "zeroconf",
                          interfaces |-> IF Truthy(interface_ip)
                                         THEN <<interface_ip>> ELSE <<>>,
                          raised |-> ~ok]}
          /\ IF ok
             THEN /\ mdns_resolvers' = mdns_resolvers + 1
                  /\ mdns_pc' = "browse"
                  /\ mdns_ti' = 1
             ELSE /\ mdns_pc' = "done"
                  /\ UNCHANGED <<mdns_resolvers, mdns_ti>>
    /\ UNCHANGED <<mdns_types, mdns_closes, mdns_browsers, mdns_services,
                   mdns_events, mdns_result, exceptMDNS>>

\* One iteration of the loop over service_types.  An exception other than
\* BadTypeInNameException leaves the try statement through its finally.
MdnsBrowse ==
    /\ mdns_pc = "browse"
    /\ mdns_ti <= Len(mdns_types)
    /\ \E outcome \in BrowserOutcomes(mdns_types[mdns_ti]), close_raises \in BOOLEAN :
          CASE outcome = "ok" ->
                 /\ mdns_browsers' = Append(mdns_browsers,
                        [resolver |-> mdns_resolvers, type |-> mdns_types[mdns_ti]])
                 /\ mdns_ti' = mdns_ti + 1
                 /\ mdns_pc' = IF mdns_ti = Len(mdns_types) THEN "sleep" ELSE "browse"
                 /\ net_log' = {}
                 /\ ~close_raises
                 /\ UNCHANGED mdns_closes
            [] outcome = "BadTypeInNameException" ->
                 /\ mdns_ti' = mdns_ti + 1
                 /\ mdns_pc' = IF mdns_ti = Len(mdns_types) THEN "sleep" ELSE "browse"
                 /\ net_log' = {}
                 /\ ~close_raises
                 /\ UNCHANGED <<mdns_browsers, mdns_closes>>
            [] OTHER ->
                 /\ mdns_closes' = finally_close(mdns_closes, TRUE)
                 /\ mdns_pc' = "raised"
                 /\ net_log' = {[ev |-> "zeroconf_close", raised |-> close_raises]}
                 /\ UNCHANGED <<mdns_browsers, mdns_ti>>
    /\ UNCHANGED <<mdns_types, mdns_resolvers, mdns_services,
                   mdns_events, mdns_result, exceptMDNS>>

\* The callbacks run on the resolver's thread from the first browser on.
ListenerLive ==
    /\ mdns_pc \in {"browse", "sleep"}
    /\ mdns_browsers /= <<>>
    /\ Len(mdns_events) < MaxEvents

MdnsAdd ==
    /\ ListenerLive
    /\ \E b \in 1..Len(mdns_browsers), name \in ServiceNames, info \in ServiceInfos :
          /\ mdns_services' = add_service(mdns_services, mdns_browsers[b].type, name, info)
          /\ mdns_events' = Append(mdns_events, [ev |-> "add_service", name |-> name])
          /\ net_log' = {[ev |-> "add_service", name |-> name]}
    /\ UNCHANGED <<mdns_pc, mdns_types, mdns_ti, mdns_resolvers, mdns_closes,
                   mdns_browsers, mdns_result, exceptMDNS>>

MdnsUpdate ==
    /\ ListenerLive
    /\ \E b \in 1..Len(mdns_browsers), name \in ServiceNames, info \in ServiceInfos :
          /\ mdns_services' = update_service(mdns_services, mdns_browsers[b].type, name, info)
          /\ mdns_events' = Append(mdns_events, [ev |-> "update_service", name |-> name])
          /\ net_log' = {[ev |-> "update_service", name |-> name]}
    /\ UNCHANGED <<mdns_pc, mdns_types, mdns_ti, mdns_resolvers, mdns_closes,
                   mdns_browsers, mdns_result, exceptMDNS>>

MdnsRemove ==
    /\ ListenerLive
    /\ \E b \in 1..Len(mdns_browsers), name \in ServiceNames :
          /\ mdns_services' = remove_service(mdns_services, mdns_browsers[b].type, name)
          /\ net_log' = {[ev |-> "remove_service", name |-> name,
                          before |-> mdns_services]}
          /\ mdns_events' = Append(mdns_events, [ev |-> "remove_service", name |-> name])
    /\ UNCHANGED <<mdns_pc, mdns_types, mdns_ti, mdns_resolvers, mdns_closes,
                   mdns_browsers, mdns_result, exceptMDNS>>

\* time.sleep returns; the finally closes the resolver and discover returns
\* the values of listener.services.
MdnsSleepEnd ==
    /\ mdns_pc = "sleep"
    /\ \E close_raises \in BOOLEAN :
          net_log' = {[ev |-> "zeroconf_close", raised |-> close_raises]}
    /\ mdns_closes' = finally_close(mdns_closes, FALSE)
    /\ mdns_result' = services_values(mdns_services)
    /\ mdns_pc' = "done"
    /\ UNCHANGED <<mdns_types, mdns_ti, mdns_resolvers, mdns_browsers,
                   mdns_services, mdns_events, exceptMDNS>>

MDNSNext ==
    \/ MdnsCreate \/ MdnsBrowse \/ MdnsAdd \/ MdnsUpdate \/ MdnsRemove
    \/ MdnsSleepEnd

SpecMDNS == MDNSInit /\ [][MDNSNext]_vars

(***************************************************************************)
(* MQTTDiscovery._probe_broker, message by message.  Two probes of the     *)
(* same broker run side by side: they see the same CONNACK, the same       *)
(* timing and the same topics, and each its own payloads.  Integers read   *)
(* from payloads are kept as their decimal strings.                        *)
(***************************************************************************)
MAX_SYS_COLLECT_TIME == 3000
MAX_TOPIC_COLLECT_TIME == 2000
MAX_SAMPLED_TOPICS == 50
MAX_SYS_ENTRIES == 200

SysClients == "$SYS/broker/clients/connected"
SysClientsActive == "$SYS/broker/clients/active"
SysUptime == "$SYS/broker/uptime"
SysUptimeSeconds == "$SYS/broker/uptime/seconds"
SysReceived == "$SYS/broker/messages/received"
SysSent == "$SYS/broker/messages/sent"
SysTopics == {SysVersion, SysClients, SysClientsActive, SysUptime,
              SysUptimeSeconds, SysReceived, SysSent}

\* Topic names by number, for brokers with more topics than the caps.
SysTopicName(i) == "$SYS/t" \o ToString(i)
TopicName(i) == "home/t" \o ToString(i)
NumberedSysTopics == {SysTopicName(i) : i \in 1..(MAX_SYS_ENTRIES + 1)}

\* topic.startswith("$SYS/")
is_sys_topic(topic) == topic \in SysTopics \cup NumberedSysTopics

\* msg.payload.decode("utf-8", errors="replace")
decode_replace(payload) == IF payload = "3\\xff" THEN "3\\ufffd" ELSE payload

\* The messages a broker may deliver: a topic and the payload each of the
\* two probes receives on it.
PayloadPool(topic) ==
    CASE topic = SysVersion -> {"mosquitto version 2.0.15", "emqx 5.0"}
      [] topic = SysClients -> {"03", "3\\xff"}
      [] topic = "home/temp" -> {"21.5", "22.0"}
      [] OTHER -> {"open"}
TopicPool == {SysVersion, SysClients, "home/temp", "home/door"}
MessagePool ==
    UNION {{[topic |-> t, payload |-> <<a, b>>] :
               a \in PayloadPool(t), b \in PayloadPool(t)} : t \in TopicPool}

\* sorted() of a set of topic names.
\* The numbered names compare as their decimal digits do: t1 < t10 < t2.
digits_key(i) == IF i < 10 THEN i * 100 ELSE i * 10 + 1
RECURSIVE sort_by_digits(_)
sort_by_digits(ids) ==
    IF ids = {} THEN <<>>
    ELSE LET m == CHOOSE x \in ids : \A y \in ids : digits_key(x) <= digits_key(y)
         IN  <<m>> \o sort_by_digits(ids \ {m})
NumberedTopicOrder ==
    LET ids == sort_by_digits(1..(MAX_SAMPLED_TOPICS + 1))
    IN  [i \in 1..Len(ids) |-> TopicName(ids[i])]
TopicOrder ==
    <<SysClients, SysVersion, "home/door">> \o NumberedTopicOrder \o <<"home/temp">>
sorted_topics(topics) == SelectSeq(TopicOrder, LAMBDA t : t \in topics)

\* on_message
on_message_keeps_all(state, topic, payload) ==
    [state EXCEPT !.sys_data = Put(@, topic, decode_replace(payload))]

\* A callback that tests the caps with <= in place of <.
on_message_cap_late(state, topic, payload) ==
    IF is_sys_topic(topic)
    THEN IF Cardinality(DOMAIN state.sys_data) <= MAX_SYS_ENTRIES
         THEN [state EXCEPT !.sys_data = Put(@, topic, decode_replace(payload))]
         ELSE state
    ELSE IF Cardinality(state.sampled_topics) <= MAX_SAMPLED_TOPICS
         THEN [state EXCEPT !.sampled_topics = @ \cup {topic}]
         ELSE state

on_message(state, topic, payload) ==
    IF is_sys_topic(topic)
    THEN IF Cardinality(DOMAIN state.sys_data) < MAX_SYS_ENTRIES
         THEN [state EXCEPT !.sys_data = Put(@, topic, decode_replace(payload))]
         ELSE state
    ELSE IF Cardinality(state.sampled_topics) < MAX_SAMPLED_TOPICS
         THEN [state EXCEPT !.sampled_topics = @ \cup {topic}]
         ELSE state

\* str.split()[0] and int() on the strings that occur: the decimal string
\* of the integer, or None where int() raises ValueError.
first_word(s) == IF s = "86400 seconds" THEN "86400" ELSE s
int_of(s) ==
    CASE s = "03" -> "3"
      [] s = "86400" -> "86400"
      [] OTHER -> None

\* _parse_sys_data
parse_sys_data(sys_data, result) ==
    LET version == GetOr(sys_data, SysVersion, "")
        uptime_str == Or(Get(sys_data, SysUptime), Or(Get(sys_data, SysUptimeSeconds), ""))
        clients_str == Or(Get(sys_data, SysClients), Or(Get(sys_data, SysClientsActive), ""))
        recv_str == GetOr(sys_data, SysReceived, "")
        sent_str == GetOr(sys_data, SysSent, "")
        Parsed(s, old) == IF s /= "" /\ int_of(s) /= None THEN int_of(s) ELSE old
    IN  [result EXCEPT
            !.broker_version = IF version /= "" THEN version ELSE @,
            !.broker_name = IF version /= "" THEN broker_short_name(version) ELSE @,
            !.uptime_seconds = Parsed(first_word(uptime_str), @),
            !.connected_clients = Parsed(clients_str, @),
            !.messages_received = Parsed(recv_str, @),
            !.messages_sent = Parsed(sent_str, @)]

\* The phases' time budgets, in milliseconds.
connect_timeout(timeout) == Min((timeout * 3) \div 10, 5000)
sys_collect_time(timeout) == Min((timeout * 4) \div 10, MAX_SYS_COLLECT_TIME)
remaining_after_sys(timeout) ==
    timeout - (sys_collect_time(timeout) + connect_timeout(timeout))

\* if rc != 0
connack_refused_never(rc) == FALSE

connack_refused(rc) == rc /= 0

\* result["metadata"] = dict(state.sys_data)
metadata_of(sys_data) == sys_data

\* Lines 217-233 of the probe: topics, test publish, metadata, risk flags.
probe_finish(result, state, published) ==
    LET r1 == [result EXCEPT
                 !.sampled_topics = sorted_topics(state.sampled_topics),
                 !.topic_count = Cardinality(state.sampled_topics),
                 !.anonymous_publish = IF published = "success" THEN TRUE ELSE @,
                 !.metadata = metadata_of(state.sys_data)]
    IN  [r1 EXCEPT !.risk_flags = mqtt_risk_flags(r1)]

Both(f(_)) == <<f(1), f(2)>>

MaxMessages == 2
ProbeTimeouts == {500, 1000, 2000, 10000}
ConnackCodes == {0, 4, 5}

ProbeInit ==
    /\ probe_pc = "connect"
    /\ probe_args \in [ip : {"192.168.1.20"}, port_cfg : {DEFAULT_PORTS[1], DEFAULT_PORTS[2]},
                       tls_supported : BOOLEAN, timeout : ProbeTimeouts]
    /\ probe_rc = -1
    /\ probe_state = Both(LAMBDA i : [sys_data |-> EmptyDict, sampled_topics |-> {}])
    /\ probe_result = Both(LAMBDA i : broker_result(probe_args.ip, probe_args.port_cfg.port,
                                                    probe_args.tls_supported))
    /\ probe_return = <<>>
    /\ probe_sent = <<>>
    /\ probe_msgs = <<>>
    /\ net_log = {}
    /\ UPnPIdle /\ CoAPIdle /\ MQTTIdle /\ PipeIdle /\ ApiIdle /\ MDNSIdle /\ CodecIdle /\ ClassifyIdle /\ StagesIdle /\ SockIdle /\ GrabIdle /\ TimeIdle /\ WorkersIdle /\ EnumIdle /\ BannerIdle /\ PortsIdle /\ ScopesIdle /\ ReaderIdle /\ RateIdle

\* client.connect, loop_start and the wait for the CONNACK; on rc = 0 the
\* subscription to $SYS/# that starts phase 1.  Every return runs the
\* finally block, whose client.disconnect() sends DISCONNECT on a connection
\* that was opened.
ProbeConnect ==
    /\ probe_pc = "connect"
    /\ net_log' = {TcpConnect("mqtt.connect", probe_args.ip, probe_args.port_cfg.port)}
    /\ \E outcome \in {"refused", "no_connack", "connack"}, rc \in ConnackCodes :
          CASE outcome = "refused" ->
                 /\ rc = 0
                 /\ probe_pc' = "done"
                 /\ probe_return' = <<<<>>, <<>>>>
                 /\ UNCHANGED <<probe_rc, probe_result, probe_sent>>
            [] outcome = "no_connack" ->
                 /\ rc = 0
                 /\ probe_pc' = "done"
                 /\ probe_return' = <<<<>>, <<>>>>
                 /\ probe_sent' = <<"CONNECT", "DISCONNECT">>
                 /\ UNCHANGED <<probe_rc, probe_result>>
            [] OTHER ->
                 /\ probe_rc' = rc
                 /\ IF connack_refused(rc)
                    THEN /\ probe_result' = Both(LAMBDA i :
                                [probe_result[i] EXCEPT !.anonymous_access = FALSE])
                         /\ probe_return' = Both(LAMBDA i : <<probe_result'[i]>>)
                         /\ probe_sent' = <<"CONNECT", "DISCONNECT">>
                         /\ probe_pc' = "done"
                    ELSE /\ probe_result' = Both(LAMBDA i :
                                [probe_result[i] EXCEPT !.anonymous_access = TRUE])
                         /\ probe_sent' = <<"CONNECT", "SUBSCRIBE $SYS/#">>
                         /\ probe_pc' = "sys"
                         /\ UNCHANGED probe_return
    /\ UNCHANGED <<probe_args, probe_state, probe_msgs, exceptProbe>>

\* The client loop delivers a message to on_message.
ProbeMessage ==
    /\ probe_pc \in {"sys", "topics"}
    /\ Len(probe_msgs) < MaxMessages
    /\ \E msg \in MessagePool :
          /\ probe_state' = Both(LAMBDA i :
                                on_message(probe_state[i], msg.topic, msg.payload[i]))
          /\ probe_msgs' = Append(probe_msgs, msg)
    /\ net_log' = {}
    /\ UNCHANGED <<probe_pc, probe_args, probe_rc, probe_result, probe_return,
                   probe_sent, exceptProbe>>

\* What is left of the probe once the last sleep is over.
ProbeFinish(sent) ==
    \E published \in {"success", "failed", "raised"} :
        /\ probe_result' = Both(LAMBDA i :
               probe_finish(IF probe_pc = "sys"
                            THEN parse_sys_data(probe_state[i].sys_data, probe_result[i])
                            ELSE probe_result[i],
                            probe_state[i], published))
        /\ probe_return' = Both(LAMBDA i : <<probe_result'[i]>>)
        /\ probe_sent' = sent \o <<"PUBLISH firefly/test", "DISCONNECT">>
        /\ probe_pc' = "done"

\* The sleep of phase 1 ends: $SYS data is parsed, and phase 2 starts if
\* more than half a second is left for it.
ProbeSysEnd ==
    /\ probe_pc = "sys"
    /\ IF remaining_after_sys(probe_args.timeout) > 500
       THEN /\ probe_result' = Both(LAMBDA i :
                   parse_sys_data(probe_state[i].sys_data, probe_result[i]))
            /\ probe_sent' = Append(probe_sent, "SUBSCRIBE #")
            /\ probe_pc' = "topics"
            /\ UNCHANGED probe_return
       ELSE ProbeFinish(probe_sent)
    /\ net_log' = {}
    /\ UNCHANGED <<probe_args, probe_rc, probe_state, probe_msgs, exceptProbe>>

\* The sleep of phase 2 ends.
ProbeTopicsEnd ==
    /\ probe_pc = "topics"
    /\ ProbeFinish(Append(probe_sent, "UNSUBSCRIBE #"))
    /\ net_log' = {}
    /\ UNCHANGED <<probe_args, probe_rc, probe_state, probe_msgs, exceptProbe>>

ProbeNext == ProbeConnect \/ ProbeMessage \/ ProbeSysEnd \/ ProbeTopicsEnd

SpecProbe == ProbeInit /\ [][ProbeNext]_vars

(***************************************************************************)
(* CoAP message codec: _build_coap_request, _encode_option and             *)
(* _parse_coap_response on sequences of bytes.  A str is a sequence of     *)
(* code points.                                                            *)
(***************************************************************************)
COAP_VERSION == 1
OPTION_URI_PATH == 11
PAYLOAD_MARKER == 255
Slash == 47

\* str.encode("utf-8"), for code points below 2048.
utf8_char(cp) ==
    IF cp < 128 THEN <<cp>> ELSE <<192 + (cp \div 64), 128 + (cp % 64)>>

RECURSIVE utf8_encode(_)
utf8_encode(s) ==
    IF Len(s) = 0 THEN <<>>
    ELSE IF Len(s) = 1 THEN utf8_char(s[1])
    ELSE LET h == Len(s) \div 2
         IN  utf8_encode(SubSeq(s, 1, h)) \o utf8_encode(SubSeq(s, h + 1, Len(s)))

\* struct.pack("!B", n) and struct.pack("!H", n)
pack_B(n) == <<n>>
pack_H(n) == <<n \div 256, n % 256>>

\* [s for s in uri_path.strip("/").split("/") if s]: the maximal runs of
\* characters other than "/", in order.
RECURSIVE ascending(_)
ascending(S) ==
    IF S = {} THEN <<>>
    ELSE LET m == CHOOSE x \in S : \A y \in S : x <= y
         IN  <<m>> \o ascending(S \ {m})

path_segments(uri_path) ==
    LET n == Len(uri_path)
        stops == {k \in 1..n : uri_path[k] = Slash} \cup {n + 1}
        starts == ascending({i \in 1..n :
                     uri_path[i] /= Slash /\ (i = 1 \/ uri_path[i - 1] = Slash)})
        stop_after(i) == CHOOSE k \in stops :
                            k > i /\ \A j \in stops : j > i => k <= j
    IN  [x \in 1..Len(starts) |-> SubSeq(uri_path, starts[x], stop_after(starts[x]) - 1)]

\* The extended delta/length form of _encode_option: nibble and extra bytes.
ext_field_little_endian(n) ==
    IF n < 13 THEN [nibble |-> n, ext |-> <<>>]
    ELSE IF n < 269 THEN [nibble |-> 13, ext |-> pack_B(n - 13)]
    ELSE [nibble |-> 14, ext |-> <<(n - 269) % 256, (n - 269) \div 256>>]

ext_field(n) ==
    IF n < 13 THEN [nibble |-> n, ext |-> <<>>]
    ELSE IF n < 269 THEN [nibble |-> 13, ext |-> pack_B(n - 13)]
    ELSE [nibble |-> 14, ext |-> pack_H(n - 269)]

\* _encode_option
encode_option(delta, value) ==
    LET d == ext_field(delta)
        l == ext_field(Len(value))
    IN  pack_B(d.nibble * 16 + l.nibble) \o d.ext \o l.ext \o value

RECURSIVE encode_segments(_, _)
encode_segments(segments, prev_option) ==
    IF segments = <<>> THEN <<>>
    ELSE encode_option(OPTION_URI_PATH - prev_option, utf8_encode(Head(segments)))
         \o encode_segments(Tail(segments), OPTION_URI_PATH)

\* _build_coap_request.  The fields of the first byte do not overlap for
\* msg_type in 0..3, so the bitwise or is a sum.
build_coap_request(msg_type, code, message_id, token, uri_path) ==
    LET tkl == Len(token)
        first_byte == COAP_VERSION * 64 + msg_type * 16 + (tkl % 16)
        code_byte == code[1] * 32 + code[2]
    IN  pack_B(first_byte) \o pack_B(code_byte) \o pack_H(message_id) \o token
        \o encode_segments(path_segments(uri_path), 0)

\* data[a:b] on bytes (0-based, b exclusive, cut at the end of data)
slice(data, a, b) == SubSeq(data, a + 1, Min(b, Len(data)))

\* One extended field of the parser: the value and the offset after it, or
\* an error where data[offset] or struct.unpack raises.
parse_ext(data, nibble, offset) ==
    IF nibble = 13
    THEN IF offset < Len(data)
         THEN [ok |-> TRUE, value |-> data[offset + 1] + 13, offset |-> offset + 1]
         ELSE [ok |-> FALSE, value |-> 0, offset |-> offset]
    ELSE IF nibble = 14
    THEN IF offset + 2 <= Len(data)
         THEN [ok |-> TRUE, value |-> data[offset + 1] * 256 + data[offset + 2] + 269,
               offset |-> offset + 2]
         ELSE [ok |-> FALSE, value |-> 0, offset |-> offset]
    ELSE [ok |-> TRUE, value |-> nibble, offset |-> offset]

\* The option loop of _parse_coap_response.
RECURSIVE parse_options(_, _, _, _)
parse_options(data, offset, prev_option_num, options) ==
    IF offset >= Len(data) THEN [ok |-> TRUE, options |-> options, offset |-> offset]
    ELSE IF data[offset + 1] = PAYLOAD_MARKER
    THEN [ok |-> TRUE, options |-> options, offset |-> offset + 1]
    ELSE LET opt_byte == data[offset + 1]
             delta == parse_ext(data, opt_byte \div 16, offset + 1)
             length == parse_ext(data, opt_byte % 16, delta.offset)
             option_num == prev_option_num + delta.value
             opt_value == slice(data, length.offset, length.offset + length.value)
         IN  IF ~delta.ok \/ ~length.ok
             THEN [ok |-> FALSE, options |-> options, offset |-> offset]
             ELSE parse_options(data, length.offset + length.value, option_num,
                                Append(options, <<option_num, opt_value>>))

\* What _parse_coap_response does where data[offset] raises IndexError or
\* struct.unpack raises struct.error.
ParserRaised == <<[raised |-> TRUE]>>

\* _parse_coap_response: <<>> for None, <<dict>> for a parsed message,
\* ParserRaised where the parser raises.
parse_coap_response(data) ==
    IF Len(data) < 4 THEN <<>>
    ELSE LET first_byte == data[1]
             code_byte == data[2]
             version == (first_byte \div 64) % 4
             tkl == first_byte % 16
             parsed == parse_options(data, 4 + tkl, 0, <<>>)
         IN  IF version /= COAP_VERSION THEN <<>>
             ELSE IF ~parsed.ok THEN ParserRaised
             ELSE << [version |-> version,
                      type |-> (first_byte \div 16) % 4,
                      code |-> <<(code_byte \div 32) % 8, code_byte % 32>>,
                      message_id |-> data[3] * 256 + data[4],
                      token |-> slice(data, 4, 4 + tkl),
                      options |-> parsed.options,
                      payload |-> IF parsed.offset < Len(data)
                                  THEN slice(data, parsed.offset, Len(data))
                                  ELSE <<>>] >>

MaxSegments == 2
Rep(cp, n) == [i \in 1..n |-> cp]
\* Segments of 1, 2, 12, 13, 268, 269 and 300 bytes.
SegmentPool ==
    {Rep(97, n) : n \in {1, 12, 13, 268, 269, 300}} \cup {Rep(233, 1), Rep(233, 150)}
SegmentLists == UNION {[1..n -> SegmentPool] : n \in 0..MaxSegments}

\* "/" + "/".join(segments)
RECURSIVE join_path(_)
join_path(segments) ==
    IF segments = <<>> THEN <<>>
    ELSE <<Slash>> \o Head(segments) \o join_path(Tail(segments))

CodecInit ==
    /\ codec_pc = "input"
    /\ codec_in \in [msg_type : {TYPE_CON, TYPE_NON}, code : {CODE_GET},
                     message_id : {1, 65535}, token : {<<>>, <<222, 173, 190, 255>>},
                     segments : SegmentLists]
    /\ codec_msg = <<>>
    /\ codec_out = <<>>
    /\ net_log = {}
    /\ UPnPIdle /\ CoAPIdle /\ MQTTIdle /\ PipeIdle /\ ApiIdle /\ MDNSIdle /\ ProbeIdle /\ ClassifyIdle /\ StagesIdle /\ SockIdle /\ GrabIdle /\ TimeIdle /\ WorkersIdle /\ EnumIdle /\ BannerIdle /\ PortsIdle /\ ScopesIdle /\ ReaderIdle /\ RateIdle

CodecBuild ==
    /\ codec_pc = "input"
    /\ codec_msg' = build_coap_request(codec_in.msg_type, codec_in.code,
                                       codec_in.message_id, codec_in.token,
                                       join_path(codec_in.segments))
    /\ codec_pc' = "built"
    /\ net_log' = {}
    /\ UNCHANGED <<codec_in, codec_out, exceptCodec>>

CodecParse ==
    /\ codec_pc = "built"
    /\ codec_out' = parse_coap_response(codec_msg)
    /\ codec_pc' = "parsed"
    /\ net_log' = {}
    /\ UNCHANGED <<codec_in, codec_msg, exceptCodec>>

\* A datagram that arrives cut short: _parse_coap_response is called on the
\* first n bytes of a message.
MaxCut == 10
CodecParseCut ==
    /\ codec_pc = "built"
    /\ \E n \in 0..Min(MaxCut, Len(codec_msg) - 1) :
          /\ codec_msg' = SubSeq(codec_msg, 1, n)
          /\ codec_out' = parse_coap_response(SubSeq(codec_msg, 1, n))
    /\ codec_pc' = "parsed_cut"
    /\ net_log' = {}
    /\ UNCHANGED <<codec_in, exceptCodec>>

CodecNext == CodecBuild \/ CodecParse \/ CodecParseCut

SpecCodec == CodecInit /\ [][CodecNext]_vars

(***************************************************************************)
(* SpecClassify: DeviceClassifier(rules), then enrich on a device          *)
(***************************************************************************)
\* TAXONOMY_RULES in the order of the table, and TaxonomyRule.priority.
TAXONOMY_RULES ==
    <<"camera", "nas", "printer", "smart-home-hub", "mqtt-broker", "coap-device",
      "media", "router", "smart-speaker", "industrial", "smart-tv", "iot-device",
      "computer">>

priority(category) ==
    CASE category = "camera" -> 10
      [] category = "nas" -> 9
      [] category = "printer" -> 8
      [] category \in {"smart-home-hub", "mqtt-broker"} -> 7
      [] category = "coap-device" -> 6
      [] category \in {"media", "router"} -> 5
      [] category \in {"smart-speaker", "industrial"} -> 4
      [] category = "smart-tv" -> 3
      [] category = "iot-device" -> 2
      [] category = "computer" -> 1

\* An unstable sort: a rule goes ahead of the rules of its own priority.
RECURSIVE insert_rule_before_equals(_, _)
insert_rule_before_equals(rule, sorted) ==
    IF sorted = <<>> THEN <<rule>>
    ELSE IF priority(Head(sorted)) > priority(rule)
    THEN <<Head(sorted)>> \o insert_rule_before_equals(rule, Tail(sorted))
    ELSE <<rule>> \o sorted

\* The place of a rule among rules already sorted: behind every rule whose
\* priority is not lower (the sort is stable).
RECURSIVE insert_rule(_, _)
insert_rule(rule, sorted) ==
    IF sorted = <<>> THEN <<rule>>
    ELSE IF priority(Head(sorted)) >= priority(rule)
    THEN <<Head(sorted)>> \o insert_rule(rule, Tail(sorted))
    ELSE <<rule>> \o sorted

RECURSIVE sort_by_priority(_)
sort_by_priority(rules) ==
    IF rules = <<>> THEN <<>>
    ELSE insert_rule(rules[Len(rules)], sort_by_priority(SubSeq(rules, 1, Len(rules) - 1)))

rules_as_given(rules) == rules

\* sorted(rules, key=lambda r: -r.priority)
sorted_rules(rules) == sort_by_priority(rules)

\* `rules or TAXONOMY_RULES`: None and the empty list give the table.
rules_or_default(rules) == IF rules = <<>> THEN TAXONOMY_RULES ELSE rules

\* The rule lists a classifier is constructed with.
RuleLists ==
    { <<>>,
      <<"iot-device", "mqtt-broker">>,
      <<"computer", "printer", "camera">>,
      <<"mqtt-broker", "smart-home-hub", "coap-device", "iot-device">>,
      <<"industrial", "router", "smart-speaker", "media">> }

\* The stages of the default pipeline ahead of the classifier, and a device
\* as they hand it on.
StagesAhead == SubSeq(StageNames, 1, Len(StageNames) - 1)
\* Names that patterns of two rules of one priority are found in, and the
\* UPnP devices that carry them.
TwoRuleNames == {"Home Assistant Mosquitto", "Plex Gateway", "Echo PLC"}
TwoRuleDevices ==
    {device_from_upnp([address |-> "192.168.1.20", name |-> n]) : n \in TwoRuleNames}

ClassifierInputs ==
    UNION { { run_stages(Submitted(device_from(Protocols[p], raw)), StagesAhead, env).device
              : raw \in RawPool(Protocols[p]), env \in NetEnvs }
            : p \in 1..Len(Protocols) }
    \cup TwoRuleDevices

\* list(set(...)) as a list: the elements once each, in any order.
Orderings(S) ==
    {s \in [1..Cardinality(S) -> S] : \A i, j \in 1..Cardinality(S) : i /= j => s[i] /= s[j]}

MaxEnrichCalls == 2

ClassifyInit ==
    /\ net_log = {}
    /\ UPnPIdle /\ CoAPIdle /\ MQTTIdle /\ PipeIdle /\ ApiIdle /\ MDNSIdle /\ ProbeIdle /\ StagesIdle /\ SockIdle /\ CodecIdle /\ GrabIdle /\ TimeIdle /\ WorkersIdle /\ EnumIdle /\ BannerIdle /\ PortsIdle /\ ScopesIdle /\ ReaderIdle /\ RateIdle
    /\ cls_pc = "new"
    /\ cls_rules \in RuleLists
    /\ cls_sorted = <<>>
    /\ cls_prev = <<>>
    /\ cls_dev \in ClassifierInputs
    /\ cls_calls = 0

\* DeviceClassifier.__init__
ClsConstruct ==
    /\ cls_pc = "new"
    /\ cls_sorted' = sorted_rules(rules_or_default(cls_rules))
    /\ cls_pc' = "ready"
    /\ UNCHANGED <<net_log, cls_rules, cls_prev, cls_dev, cls_calls, exceptClassify>>

\* DeviceClassifier.enrich on the device.
ClsEnrich ==
    /\ cls_pc = "ready"
    /\ cls_calls < MaxEnrichCalls
    /\ LET matched == first_rule(cls_sorted, blob_hits(cls_dev)) /= None
           out == enrich_with_rules(cls_sorted, cls_dev).device
       IN  \E tags \in (IF matched THEN Orderings(out.device_tags)
                        ELSE {out.device_tags}) :
              cls_dev' = [out EXCEPT !.device_tags = tags]
    /\ cls_prev' = cls_dev
    /\ cls_calls' = cls_calls + 1
    /\ UNCHANGED <<net_log, cls_pc, cls_rules, cls_sorted, exceptClassify>>

ClassifyNext == ClsConstruct \/ ClsEnrich

SpecClassify == ClassifyInit /\ [][ClassifyNext]_vars

(***************************************************************************)
(* SpecStages: build_default_pipeline, then enrich_device on one device,   *)
(* one enricher per step                                                   *)
(***************************************************************************)
\* A device as devices_from_results makes it from a record of a scan.
ConvertedDevices ==
    UNION { {device_from(Protocols[p], raw) : raw \in RawPool(Protocols[p])}
            : p \in 1..Len(Protocols) }

StagesInit ==
    /\ net_log = {}
    /\ UPnPIdle /\ CoAPIdle /\ MQTTIdle /\ PipeIdle /\ ApiIdle /\ MDNSIdle /\ ProbeIdle /\ SockIdle /\ CodecIdle /\ ClassifyIdle /\ GrabIdle /\ TimeIdle /\ WorkersIdle /\ EnumIdle /\ BannerIdle /\ PortsIdle /\ ScopesIdle /\ ReaderIdle /\ RateIdle
    /\ st_pc = "build"
    /\ st_stages = <<>>
    /\ st_idx = 0
    /\ st_env \in NetEnvs
    /\ st_prev = <<>>
    /\ st_dev \in ConvertedDevices

\* build_default_pipeline: the eight register calls.
StBuild ==
    /\ st_pc = "build"
    /\ st_stages' = StageNames
    /\ st_idx' = 1
    /\ st_pc' = "loop"
    /\ net_log' = {}
    /\ UNCHANGED <<st_env, st_prev, st_dev, exceptStages>>

\* One iteration of the loop of enrich_device.
StStage ==
    /\ st_pc = "loop"
    /\ st_idx <= Len(st_stages)
    /\ \E run \in {run_stages(Submitted(st_dev), <<st_stages[st_idx]>>, st_env)} :
          /\ st_dev' = run.device
          /\ net_log' = run.io
    /\ st_prev' = st_dev
    /\ st_idx' = st_idx + 1
    /\ UNCHANGED <<st_pc, st_stages, st_env, exceptStages>>

\* return device
StReturn ==
    /\ st_pc = "loop"
    /\ st_idx > Len(st_stages)
    /\ st_pc' = "returned"
    /\ net_log' = {}
    /\ UNCHANGED <<st_stages, st_idx, st_env, st_prev, st_dev, exceptStages>>

StagesNext == StBuild \/ StStage \/ StReturn

SpecStages == StagesInit /\ [][StagesNext]_vars

(***************************************************************************)
(* SpecSock: the socket of UPnPDiscovery.discover, WSDiscovery.discover    *)
(* and CoAPDiscovery._multicast_discover (IPv4, then IPv6), system call by *)
(* system call, under the caller that runs them one after another          *)
(***************************************************************************)
\* The engines main.discover calls one after another without a handler
\* around the calls, and the two sockets of _multicast_discover.
EnginePlans ==
    { <<"upnp", "wsd">>, <<"upnp">>, <<"wsd">>, <<"coap4", "coap6">> }

SockInterfaces == {None, "192.168.1.20"}

\* Where the engine goes after a system call.  "raise" leaves the engine
\* with the exception at once; "close" is the finally block.
upnp_flow(call, ok, iface) ==
    CASE call = "socket" -> IF ok THEN "ttl" ELSE "raise"
      [] call = "ttl" -> IF ~ok THEN "raise" ELSE IF Truthy(iface) THEN "bind" ELSE "sendto"
      [] call = "bind" -> IF ok THEN "set_if" ELSE "sendto"
      [] call = "set_if" -> "sendto"
      [] call = "sendto" -> IF ok THEN "recvfrom" ELSE "close"

wsd_flow(call, ok, iface) ==
    CASE call = "socket" -> IF ok THEN "bind" ELSE "raise"
      [] call = "bind" -> IF ok /\ Truthy(iface) THEN "set_if" ELSE "ttl"
      [] call = "set_if" -> "ttl"
      [] call = "ttl" -> IF ok THEN "sendto" ELSE "raise"
      [] call = "sendto" -> IF ok THEN "recvfrom" ELSE "close"

coap4_flow(call, ok, iface) ==
    CASE call = "socket" -> IF ok THEN "reuseaddr" ELSE "skip"
      [] call = "reuseaddr" -> IF ok THEN "ttl" ELSE "close"
      [] call = "ttl" -> IF ~ok THEN "close" ELSE IF Truthy(iface) THEN "set_if" ELSE "sendto"
      [] call = "set_if" -> "sendto"
      [] call = "sendto" -> IF ok THEN "recvfrom" ELSE "close"

coap6_flow(call, ok, iface) ==
    CASE call = "socket" -> IF ok THEN "reuseaddr" ELSE "skip"
      [] call = "reuseaddr" -> IF ok THEN "ttl" ELSE "close"
      [] call = "ttl" -> IF ok THEN "sendto" ELSE "close"
      [] call = "sendto" -> IF ok THEN "recvfrom" ELSE "close"

flow(engine, call, ok, iface) ==
    CASE engine = "upnp" -> upnp_flow(call, ok, iface)
      [] engine = "wsd" -> wsd_flow(call, ok, iface)
      [] engine = "coap4" -> coap4_flow(call, ok, iface)
      [] engine = "coap6" -> coap6_flow(call, ok, iface)

\* `except OSError` around the whole engine: only _multicast_discover has it.
swallows_os_error(engine) == engine \in {"coap4", "coap6"}

\* The address a bind call is given: interface_ip, or "" in WSDiscovery
\* when there is none.
bind_address(engine, iface) == IF Truthy(iface) THEN iface ELSE ""

SysCall(engine, call, arg, ok) == [engine |-> engine, call |-> call, arg |-> arg, ok |-> ok]

call_arg(engine, call, iface) ==
    CASE call = "bind" -> bind_address(engine, iface)
      [] call = "set_if" -> iface
      [] call = "sendto" -> (CASE engine = "upnp" -> "239.255.255.250"
                               [] engine = "wsd" -> "239.255.255.250"
                               [] engine = "coap4" -> COAP_MCAST_IPV4
                               [] engine = "coap6" -> COAP_MCAST_IPV6)
      [] OTHER -> ""

MaxSockRecv == 1

Engine == sock_plan[sock_at]

SockInit ==
    /\ net_log = {}
    /\ UPnPIdle /\ CoAPIdle /\ MQTTIdle /\ PipeIdle /\ ApiIdle /\ MDNSIdle /\ ProbeIdle /\ CodecIdle /\ ClassifyIdle /\ StagesIdle /\ GrabIdle /\ TimeIdle /\ WorkersIdle /\ EnumIdle /\ BannerIdle /\ PortsIdle /\ ScopesIdle /\ ReaderIdle /\ RateIdle
    /\ sock_pc = "socket"
    /\ sock_plan \in EnginePlans
    /\ sock_at = 1
    /\ sock_iface \in SockInterfaces
    /\ sock_open = {}
    /\ sock_pending = FALSE
    /\ sock_recvd = 0
    /\ sock_trace = <<>>
    /\ sock_exit = <<>>

\* The engine leaves: how, and what the caller does next.
Leave(how) ==
    /\ sock_exit' = Append(sock_exit, [engine |-> Engine, how |-> how])
    /\ sock_pending' = FALSE
    /\ sock_recvd' = 0
    /\ IF how = "raised" THEN /\ sock_pc' = "failed"
                              /\ sock_at' = sock_at
       ELSE IF sock_at < Len(sock_plan) THEN /\ sock_pc' = "socket"
                                             /\ sock_at' = sock_at + 1
       ELSE /\ sock_pc' = "done"
            /\ sock_at' = sock_at

\* The engine moves to the step `to` within its own code.
Goto(to) ==
    /\ sock_pc' = to
    /\ UNCHANGED <<sock_at, sock_exit, sock_recvd>>

\* After a call that went to `to`: "raise" and "skip" leave the engine at
\* once, "close" after a failure carries the exception through finally.
After(to, failed) ==
    CASE to = "raise" -> Leave("raised")
      [] to = "skip" -> Leave("returned")
      [] to = "close" -> Goto("close") /\ sock_pending' = failed
      [] OTHER -> Goto(to) /\ sock_pending' = FALSE

\* socket.socket(...)
SockCreate ==
    /\ sock_pc = "socket"
    /\ \E ok \in BOOLEAN :
          /\ sock_trace' = Append(sock_trace, SysCall(Engine, "socket", "", ok))
          /\ sock_open' = IF ok THEN sock_open \cup {Engine} ELSE sock_open
          /\ After(flow(Engine, "socket", ok, sock_iface), FALSE)
    /\ UNCHANGED <<net_log, sock_plan, sock_iface, exceptSock>>

\* setsockopt (SO_REUSEADDR, the TTL or hop limit, IP_MULTICAST_IF), bind
\* and sendto.
SockCall(call) ==
    /\ sock_pc = call
    /\ \E ok \in BOOLEAN :
          /\ sock_trace' = Append(sock_trace,
                                  SysCall(Engine, call, call_arg(Engine, call, sock_iface), ok))
          /\ After(flow(Engine, call, ok, sock_iface), ~ok)
    /\ UNCHANGED <<net_log, sock_plan, sock_iface, sock_open, exceptSock>>

\* One recvfrom of the receive loop, or the loop's end.
SockRecv ==
    /\ sock_pc = "recvfrom"
    /\ \E got \in {"data", "timeout", "oserror"} :
          CASE got = "data" ->
                  /\ sock_recvd < MaxSockRecv
                  /\ sock_recvd' = sock_recvd + 1
                  /\ sock_pending' = FALSE
                  /\ UNCHANGED <<sock_pc, sock_at, sock_exit>>
            [] got = "timeout" -> Goto("close") /\ sock_pending' = FALSE
            [] got = "oserror" ->
                  Goto("close") /\ sock_pending' = ~swallows_os_error(Engine)
    /\ UNCHANGED <<net_log, sock_plan, sock_iface, sock_open, sock_trace, exceptSock>>

\* finally: sock.close()
SockClose ==
    /\ sock_pc = "close"
    /\ sock_trace' = Append(sock_trace, SysCall(Engine, "close", "", TRUE))
    /\ sock_open' = sock_open \ {Engine}
    /\ Leave(IF sock_pending /\ ~swallows_os_error(Engine) THEN "raised" ELSE "returned")
    /\ UNCHANGED <<net_log, sock_plan, sock_iface, exceptSock>>

SockNext ==
    \/ SockCreate
    \/ \E call \in {"reuseaddr", "ttl", "bind", "set_if", "sendto"} : SockCall(call)
    \/ SockRecv
    \/ SockClose

SpecSock == SockInit /\ [][SockNext]_vars

(***************************************************************************)
(* SpecGrab: one call of _grab_single, statement by statement, and the     *)
(* lines of BannerGrabber.enrich that take its result                      *)
(***************************************************************************)
GrabPorts == {BANNER_PORTS[i] : i \in 1..Len(BANNER_PORTS)}

\* config.get("probe", b""): the ports whose entry has a non-empty probe
banner_port_probe(port) == port \in {80, 443, 554, 8080, 8443}

\* What sock.recv(1024) may hand back once decoded and stripped.
GrabReplies ==
    {BannerReply("", 0), BannerReply(SshBanner, 24), BannerReply(HttpBanner, 46),
     BannerReply(LongBanner, 600)}

\* The statement after a successful connect or handshake.
after_connect(port) ==
    IF banner_port_tls(port) THEN "wrap"
    ELSE IF banner_port_probe(port) THEN "sendall" ELSE "recv"
after_wrap(port) == IF banner_port_probe(port) THEN "sendall" ELSE "recv"

BannerResult(port, banner) ==
    [port |-> port, service_name |-> banner_port_name(port), banner |-> banner,
     tls |-> banner_port_tls(port),
     tls_version |-> IF banner_port_tls(port) THEN "TLSv1.3" ELSE None]

GrabInit ==
    /\ net_log = {}
    /\ UPnPIdle /\ CoAPIdle /\ MQTTIdle /\ PipeIdle /\ ApiIdle /\ MDNSIdle /\ ProbeIdle /\ CodecIdle /\ ClassifyIdle /\ StagesIdle /\ SockIdle /\ TimeIdle /\ WorkersIdle /\ EnumIdle /\ BannerIdle /\ PortsIdle /\ ScopesIdle /\ ReaderIdle /\ RateIdle
    /\ grab_pc = "socket"
    /\ grab_port \in GrabPorts
    /\ grab_fd = "none"
    /\ grab_sock = None
    /\ grab_path = <<>>
    /\ grab_result = <<>>
    /\ grab_banners = EmptyDict
    /\ grab_errors = <<>>

\* Every statement of the try block either goes on or raises; both except
\* clauses return None, and the finally block runs before the return.
GrabStep(what, to) ==
    /\ grab_pc' = to
    /\ grab_path' = Append(grab_path, what)
    /\ UNCHANGED <<net_log, grab_port, grab_banners, grab_errors, exceptGrab>>

\* raw_sock = socket.socket(...); raw_sock.settimeout(timeout)
GrabSocket ==
    /\ grab_pc = "socket"
    /\ \/ /\ grab_fd' = "open"
          /\ GrabStep("socket", "connect")
       \/ /\ grab_fd' = grab_fd
          /\ GrabStep("socket failed", "finally")
    /\ UNCHANGED <<grab_sock, grab_result>>

\* raw_sock.connect((host, port)); sock = raw_sock
GrabConnect ==
    /\ grab_pc = "connect"
    /\ \/ /\ grab_sock' = "raw"
          /\ GrabStep("connect", after_connect(grab_port))
       \/ /\ grab_sock' = grab_sock
          /\ \E why \in {"refused", "timed out"} : GrabStep(why, "finally")
    /\ UNCHANGED <<grab_fd, grab_result>>

\* sock = ctx.wrap_socket(raw_sock, server_hostname=host)
GrabWrap ==
    /\ grab_pc = "wrap"
    /\ \/ /\ grab_sock' = "ssl"
          /\ GrabStep("handshake", after_wrap(grab_port))
       \/ /\ grab_sock' = grab_sock
          /\ GrabStep("handshake failed", "finally")
    /\ UNCHANGED <<grab_fd, grab_result>>

\* sock.sendall(probe)
GrabSendall ==
    /\ grab_pc = "sendall"
    /\ \/ GrabStep("sendall", "recv")
       \/ GrabStep("sendall failed", "finally")
    /\ UNCHANGED <<grab_fd, grab_sock, grab_result>>

\* banner = sock.recv(1024)...; None when empty, cut when long
GrabRecv ==
    /\ grab_pc = "recv"
    /\ \/ \E reply \in GrabReplies :
             /\ grab_result' = IF reply.text = "" THEN <<>>
                               ELSE <<BannerResult(grab_port, truncate_banner(reply))>>
             /\ GrabStep(IF reply.text = "" THEN "empty banner" ELSE "banner", "finally")
       \/ /\ grab_result' = grab_result
          /\ GrabStep("timed out", "finally")
    /\ UNCHANGED <<grab_fd, grab_sock>>

\* finally: if sock: sock.close()   (closing the TLS socket closes the
\* socket it wraps)
GrabFinally ==
    /\ grab_pc = "finally"
    /\ grab_fd' = IF grab_sock /= None THEN "closed" ELSE grab_fd
    /\ grab_pc' = "returned"
    /\ UNCHANGED <<net_log, grab_port, grab_sock, grab_path, grab_result, grab_banners,
                   grab_errors, exceptGrab>>

\* BannerGrabber.enrich: if result: device.banners[port] = result.banner
GrabTaken ==
    /\ grab_pc = "returned"
    /\ grab_banners' = IF grab_result /= <<>>
                       THEN Put(grab_banners, grab_port, grab_result[1].banner)
                       ELSE grab_banners
    /\ grab_pc' = "done"
    /\ UNCHANGED <<net_log, grab_port, grab_fd, grab_sock, grab_path, grab_result,
                   grab_errors, exceptGrab>>

GrabNext ==
    \/ GrabSocket
    \/ GrabConnect
    \/ GrabWrap
    \/ GrabSendall
    \/ GrabRecv
    \/ GrabFinally
    \/ GrabTaken

SpecGrab == GrabInit /\ [][GrabNext]_vars

(***************************************************************************)
(* SpecTime: the wall-clock time UPnPDiscovery.discover and                *)
(* CoAPDiscovery.discover take with timeout=1, in ticks of a tenth of a    *)
(* second; every blocking call takes any time its own timeout allows       *)
(***************************************************************************)
TicksPerSecond == 10
EngineTimeout == 1 * TicksPerSecond          \* timeout=1
FetchTimeout == 3 * TicksPerSecond           \* session.get(location, timeout=3)
MaxTimedResponses == 2

\* multicast_time = min(self.timeout * 0.4, 3.0)
multicast_time == Min((EngineTimeout * 4) \div 10, 3 * TicksPerSecond)
\* sock.settimeout(min(timeout, 1.0)) in _multicast_discover
multicast_recv_timeout == Min(multicast_time, TicksPerSecond)
\* the thresholds `remaining > 0.5` and `remaining > 0.3`
PhaseThreshold == (5 * TicksPerSecond) \div 10
DtlsThreshold == (3 * TicksPerSecond) \div 10
\* probe_delay_ms = 100
probe_delay == TicksPerSecond \div 10
\* min(2.0, timeout / max(len(target_ips), 1)) for one target, and
\* min(1.0, timeout / max(len(devices), 1)) for one device
per_host_timeout(remaining) == Min(2 * TicksPerSecond, remaining)
dtls_per_host(remaining) == Min(TicksPerSecond, remaining)

TimeInit ==
    /\ net_log = {}
    /\ UPnPIdle /\ CoAPIdle /\ MQTTIdle /\ PipeIdle /\ ApiIdle /\ MDNSIdle /\ ProbeIdle /\ CodecIdle /\ ClassifyIdle /\ StagesIdle /\ SockIdle /\ GrabIdle /\ WorkersIdle /\ EnumIdle /\ BannerIdle /\ PortsIdle /\ ScopesIdle /\ ReaderIdle /\ RateIdle
    /\ tm_engine \in {"upnp", "coap"}
    /\ tm_pc = IF tm_engine = "upnp" THEN "recvfrom" ELSE "mcast4"
    /\ tm_now = 0
    /\ tm_start = 0
    /\ tm_recvd = 0

TmFrame == UNCHANGED <<net_log, tm_engine, exceptTime>>

\* UPnP: sock.recvfrom under settimeout(self.timeout); socket.timeout breaks
TmRecv ==
    /\ tm_pc = "recvfrom"
    /\ \/ /\ tm_recvd < MaxTimedResponses
          /\ \E d \in 0..(EngineTimeout - 1) : tm_now' = tm_now + d
          /\ tm_recvd' = tm_recvd + 1
          /\ tm_pc' = "fetch"
       \/ /\ tm_now' = tm_now + EngineTimeout
          /\ tm_pc' = "returned"
          /\ tm_recvd' = tm_recvd
    /\ UNCHANGED tm_start
    /\ TmFrame

\* UPnP: enrich_device_info (no fetch, or a fetch of up to its timeout),
\* then `if time.time() - start > self.timeout: break`
TmFetch ==
    /\ tm_pc = "fetch"
    /\ \E f \in 0..FetchTimeout : tm_now' = tm_now + f
    /\ tm_pc' = IF tm_now' - tm_start > EngineTimeout THEN "returned" ELSE "recvfrom"
    /\ UNCHANGED <<tm_start, tm_recvd>>
    /\ TmFrame

\* What follows the two multicast sockets: the phases, each behind its
\* `remaining` test.
phase_after(pc, now) ==
    LET remaining == EngineTimeout - now
        gate(p) == CASE p = "unicast" -> remaining > PhaseThreshold
                     [] p = "enumerate" -> remaining > PhaseThreshold
                     [] p = "dtls" -> remaining > DtlsThreshold
        order == <<"unicast", "enumerate", "dtls">>
        from == CASE pc = "mcast6" -> 1 [] pc = "unicast" -> 2
                  [] pc = "enumerate" -> 3 [] pc = "dtls" -> 4
        open == {i \in from..3 : gate(order[i])}
    IN  IF open = {} THEN "returned"
        ELSE order[CHOOSE i \in open : \A j \in open : i <= j]

\* CoAP: the receive loop of one multicast socket
\* (`while time.time() - start < timeout`), or the socket failing at once
TmMulticast ==
    /\ tm_pc \in {"mcast4", "mcast6"}
    /\ LET leave == IF tm_pc = "mcast4" THEN "mcast6" ELSE phase_after("mcast6", tm_now)
       IN  \/ /\ tm_now - tm_start < multicast_time
              /\ \/ /\ tm_recvd < MaxTimedResponses
                    /\ \E d \in 0..(multicast_recv_timeout - 1) : tm_now' = tm_now + d
                    /\ tm_recvd' = tm_recvd + 1
                 \/ /\ tm_now' = tm_now + multicast_recv_timeout
                    /\ tm_recvd' = tm_recvd
              /\ UNCHANGED <<tm_pc, tm_start>>
           \/ /\ tm_pc' = leave
              /\ tm_start' = tm_now
              /\ UNCHANGED <<tm_now, tm_recvd>>
    /\ TmFrame

\* CoAP: one host probed in _unicast_discover, one resource fetched in
\* _enumerate_resources (after the probe delay), one host in _check_dtls
TmPhase ==
    /\ tm_pc \in {"unicast", "enumerate", "dtls"}
    /\ LET remaining == EngineTimeout - tm_start
           longest == CASE tm_pc = "unicast" -> per_host_timeout(remaining)
                        [] tm_pc = "enumerate" -> probe_delay + Min(2 * TicksPerSecond, remaining)
                        [] tm_pc = "dtls" -> dtls_per_host(remaining)
       IN  \E d \in 0..longest :
              /\ tm_now' = tm_now + d
              /\ tm_pc' = phase_after(tm_pc, tm_now')
              /\ tm_start' = tm_now'
    /\ UNCHANGED tm_recvd
    /\ TmFrame

TimeNext ==
    \/ TmRecv
    \/ TmFetch
    \/ TmMulticast
    \/ TmPhase

SpecTime == TimeInit /\ [][TimeNext]_vars

(***************************************************************************)
(* SpecWorkers: devices_from_results, then the thread pool of enrich_all   *)
(* with the stages of each enrich_device as separate steps.  What a stage  *)
(* does to its device is SpecPipe's and SpecStages' matter; here a stage   *)
(* is the worker being inside it.                                          *)
(***************************************************************************)
\* ThreadPoolExecutor(max_workers=...): the threads that may run work items
MaxWorkers == 2

\* One pool.submit(self.enrich_device, dev, timeout) per device of the
\* list, in list order.
submitted_twice(devices) ==
    [k \in 1..(2 * Len(devices)) |-> ((k - 1) % Len(devices)) + 1]

submitted(devices) == [idx \in 1..Len(devices) |-> idx]

\* The worker threads that run a work item.
BusyWorkers == {wk_worker[t] : t \in {u \in 1..Len(wk_tasks) : wk_state[u] = "running"}}

WorkersInit ==
    /\ net_log = {}
    /\ UPnPIdle /\ CoAPIdle /\ MQTTIdle /\ PipeIdle /\ ApiIdle /\ MDNSIdle /\ ProbeIdle /\ CodecIdle /\ ClassifyIdle /\ StagesIdle /\ SockIdle /\ GrabIdle /\ TimeIdle /\ EnumIdle /\ BannerIdle /\ PortsIdle /\ ScopesIdle /\ ReaderIdle /\ RateIdle
    /\ wk_pc = "convert"
    /\ wk_scan \in ScanResults
    /\ wk_devices = <<>>
    /\ wk_tasks = <<>>
    /\ wk_state = <<>>
    /\ wk_worker = <<>>
    /\ wk_stage = <<>>
    /\ wk_seen = <<>>
    /\ wk_runs = <<>>

\* devices_from_results, then enrich_all up to the submission of the work
\* items (or its early return on an empty list).
WkConvert ==
    /\ wk_pc = "convert"
    /\ LET devices == devices_from_results(wk_scan)
           tasks == IF devices = <<>> THEN <<>> ELSE submitted(devices)
       IN  /\ wk_devices' = devices
           /\ wk_tasks' = tasks
           /\ wk_state' = [t \in 1..Len(tasks) |-> "queued"]
           /\ wk_worker' = [t \in 1..Len(tasks) |-> 0]
           /\ wk_stage' = [t \in 1..Len(tasks) |-> 0]
           /\ wk_seen' = [i \in 1..Len(devices) |-> <<>>]
           /\ wk_runs' = [i \in 1..Len(devices) |-> 0]
           /\ wk_pc' = IF devices = <<>> THEN "returned" ELSE "run"
    /\ net_log' = {}
    /\ UNCHANGED <<wk_scan, exceptWorkers>>

\* A worker thread that runs nothing takes a queued work item and calls
\* enrich_device.  (Threads are interchangeable: the free thread with the
\* lowest number takes it.)
WkTake ==
    /\ wk_pc = "run"
    /\ \E t \in 1..Len(wk_tasks) :
          /\ wk_state[t] = "queued"
          /\ (1..MaxWorkers) \ BusyWorkers /= {}
          /\ LET free == (1..MaxWorkers) \ BusyWorkers
                 w == CHOOSE x \in free : \A y \in free : x <= y
             IN  wk_worker' = [wk_worker EXCEPT ![t] = w]
          /\ wk_state' = [wk_state EXCEPT ![t] = "running"]
          /\ wk_runs' = [wk_runs EXCEPT ![wk_tasks[t]] = @ + 1]
    /\ net_log' = {}
    /\ UNCHANGED <<wk_pc, wk_scan, wk_devices, wk_tasks, wk_stage, wk_seen,
                   exceptWorkers>>

\* One iteration of `for enricher in self._enrichers` in a worker.
WkStage ==
    /\ wk_pc = "run"
    /\ \E t \in 1..Len(wk_tasks) :
          /\ wk_state[t] = "running"
          /\ wk_stage[t] < Len(StageNames)
          /\ wk_stage' = [wk_stage EXCEPT ![t] = @ + 1]
          /\ wk_seen' = [wk_seen EXCEPT ![wk_tasks[t]] =
                            Append(@, StageNames[wk_stage[t] + 1])]
    /\ net_log' = {}
    /\ UNCHANGED <<wk_pc, wk_scan, wk_devices, wk_tasks, wk_state, wk_worker,
                   wk_runs, exceptWorkers>>

\* enrich_device returns: the work item is done and its thread is free.
WkDone ==
    /\ wk_pc = "run"
    /\ \E t \in 1..Len(wk_tasks) :
          /\ wk_state[t] = "running"
          /\ wk_stage[t] = Len(StageNames)
          /\ wk_state' = [wk_state EXCEPT ![t] = "finished"]
    /\ net_log' = {}
    /\ UNCHANGED <<wk_pc, wk_scan, wk_devices, wk_tasks, wk_worker, wk_stage,
                   wk_seen, wk_runs, exceptWorkers>>

\* as_completed has yielded every future and the pool is shut down.
WkReturn ==
    /\ wk_pc = "run"
    /\ \A t \in 1..Len(wk_tasks) : wk_state[t] = "finished"
    /\ wk_pc' = "returned"
    /\ net_log' = {}
    /\ UNCHANGED <<wk_scan, wk_devices, wk_tasks, wk_state, wk_worker, wk_stage,
                   wk_seen, wk_runs, exceptWorkers>>

WorkersNext == WkConvert \/ WkTake \/ WkStage \/ WkDone \/ WkReturn

SpecWorkers == WorkersInit /\ [][WorkersNext]_vars

(***************************************************************************)
(* CoAP resource enumeration on long resource lists                       *)
(* (protocols/coap.py, _enumerate_resources)                               *)
(***************************************************************************)
\* Length of the longest resource list a device advertises here; it is
\* above MAX_RESOURCES_PER_DEVICE so that the slice cuts something off.
MaxUris == 12

uri_name(i) == "/r" \o ToString(i)

\* A device whose /.well-known/core listed MaxUris plain resources.
plain_resources ==
    [i \in 1..MaxUris |-> resource_entry([uri |-> uri_name(i)])]

\* A device whose list holds /.well-known/core itself and a link without
\* a target among the first entries.
mixed_resources ==
    [i \in 1..MaxUris |->
        resource_entry(CASE i = 2 -> [uri |-> "/.well-known/core"]
                         [] i = 4 -> [title |-> "untitled"]
                         [] OTHER -> [uri |-> uri_name(i), rt |-> "light"])]

enum_device(ip, resources) ==
    [address |-> ip, port |-> COAP_PORT, resources |-> resources]

EnumDeviceLists ==
    { << enum_device("192.168.1.20", plain_resources) >>,
      << enum_device("127.0.0.1", <<>>),
         enum_device("8.8.8.8", mixed_resources) >>,
      << enum_device("169.254.169.254", Map(parse_link_format(LinkLight), resource_entry)),
         enum_device("8.8.8.8", SubSeq(mixed_resources, 1, 5)) >> }

\* What recvfrom gives for one GET.
EnumAnswers ==
    { RecvTimeout, Truncated,
      CoapResponse(TYPE_CON, CODE_CONTENT, LinkSensor, 40),
      CoapResponse(TYPE_ACK, CODE_NOT_FOUND, "", 0) }

\* resources[:MAX_RESOURCES_PER_DEVICE] of the device under the outer loop
enum_slice(dev) ==
    LET resources == GetOr(dev, "resources", <<>>)
    IN  SubSeq(resources, 1, Min(Len(resources), MAX_RESOURCES_PER_DEVICE))

EnumInit ==
    /\ net_log = {}
    /\ UPnPIdle /\ CoAPIdle /\ MQTTIdle /\ PipeIdle /\ ApiIdle /\ MDNSIdle /\ ProbeIdle /\ CodecIdle /\ ClassifyIdle /\ StagesIdle /\ SockIdle /\ GrabIdle /\ TimeIdle /\ WorkersIdle /\ BannerIdle /\ PortsIdle /\ ScopesIdle /\ ReaderIdle /\ RateIdle
    /\ en_pc = "enum"
    /\ en_devices \in EnumDeviceLists
    /\ en_before = en_devices
    /\ en_di = 1
    /\ en_ri = 1
    /\ en_gets = <<>>

\* `if time.time() - start >= timeout: return` at the head of an iteration.
EnTimeUp ==
    /\ en_pc = "enum"
    /\ en_di <= Len(en_devices)
    /\ en_ri <= Len(enum_slice(en_devices[en_di]))
    /\ en_pc' = "returned"
    /\ net_log' = {}
    /\ UNCHANGED <<en_devices, en_before, en_di, en_ri, en_gets, exceptEnum>>

\* One iteration of `for res in resources[:MAX_RESOURCES_PER_DEVICE]`.
EnGet ==
    /\ en_pc = "enum"
    /\ en_di <= Len(en_devices)
    /\ LET dev == en_devices[en_di]
           ip == dev["address"]
           resources == GetOr(dev, "resources", <<>>)
       IN  /\ en_ri <= Len(enum_slice(dev))
           /\ \E resp \in EnumAnswers :
                 LET res == resources[en_ri]
                     uri == GetOr(res, "uri", "")
                     skip == uri = "" \/ uri = "/.well-known/core"
                     sent == ~skip /\ sendto_inet_ok(ip)
                 IN  /\ net_log' = IF sent
                                   THEN {build_get("coap.enumerate", ip, COAP_PORT, TYPE_CON)}
                                        \cup ack_for("coap.enumerate", ip, resp)
                                   ELSE {}
                     /\ en_gets' = IF sent THEN Append(en_gets, [ip |-> ip, uri |-> uri])
                                   ELSE en_gets
                     /\ en_devices' =
                           IF sent
                           THEN [en_devices EXCEPT ![en_di] =
                                   Put(dev, "resources",
                                       [resources EXCEPT ![en_ri] = enumerated(res, resp)])]
                           ELSE en_devices
                     /\ en_pc' = after_parse(en_pc, resp, sent)
    /\ en_ri' = en_ri + 1
    /\ UNCHANGED <<en_before, en_di, exceptEnum>>

\* The slice of this device is used up (or empty): the next device.
EnNextDevice ==
    /\ en_pc = "enum"
    /\ en_di <= Len(en_devices)
    /\ en_ri > Len(enum_slice(en_devices[en_di]))
    /\ en_di' = en_di + 1
    /\ en_ri' = 1
    /\ net_log' = {}
    /\ UNCHANGED <<en_pc, en_devices, en_before, en_gets, exceptEnum>>

\* The outer loop is over.
EnReturn ==
    /\ en_pc = "enum"
    /\ en_di > Len(en_devices)
    /\ en_pc' = "returned"
    /\ net_log' = {}
    /\ UNCHANGED <<en_devices, en_before, en_di, en_ri, en_gets, exceptEnum>>

EnumNext == EnTimeUp \/ EnGet \/ EnNextDevice \/ EnReturn

SpecEnum == EnumInit /\ [][EnumNext]_vars

(***************************************************************************)
(* Banner lengths (protocols/banner.py, _grab_single and enrich)           *)
(*                                                                         *)
(* A byte or character string is a sequence of runs <<kind, count>>, so    *)
(* that slicing, stripping and decoding are computed on texts of a         *)
(* thousand characters.  Byte kinds: "a" an ASCII letter, "sp" a blank,    *)
(* "c3a9" the two bytes of one two-byte UTF-8 character, "ff" a byte that  *)
(* is valid nowhere in UTF-8.                                              *)
(***************************************************************************)
RECV_SIZE == 1024
\* How many bytes beyond RECV_SIZE a host may send.
MaxExtra == 2

Run(kind, n) == IF n > 0 THEN << <<kind, n>> >> ELSE <<>>

RECURSIVE str_len(_)
str_len(s) == IF s = <<>> THEN 0 ELSE Head(s)[2] + str_len(Tail(s))

\* s[:k]
RECURSIVE take(_, _)
take(s, k) ==
    IF s = <<>> \/ k <= 0 THEN <<>>
    ELSE IF Head(s)[2] >= k THEN Run(Head(s)[1], k)
    ELSE <<Head(s)>> \o take(Tail(s), k - Head(s)[2])

\* sock.recv(1024): bytes are counted in units of one byte, a "c3a9" run of
\* n characters holds 2n bytes and may be cut in the middle of a character.
bytes_of(run) == IF run[1] = "c3a9" THEN 2 * run[2] ELSE run[2]

RECURSIVE recv(_, _)
recv(sent, size) ==
    IF sent = <<>> \/ size <= 0 THEN <<>>
    ELSE LET run == Head(sent)
         IN  IF bytes_of(run) <= size
             THEN <<run>> \o recv(Tail(sent), size - bytes_of(run))
             ELSE IF run[1] = "c3a9"
                  THEN Run("c3a9", size \div 2) \o Run("c3", size % 2)
                  ELSE Run(run[1], size)

\* .decode("utf-8", errors="replace"): a two-byte character is one
\* character, an invalid byte or a cut character is one U+FFFD.
decode_run(run) ==
    CASE run[1] = "a" -> <<"a", run[2]>>
      [] run[1] = "sp" -> <<"sp", run[2]>>
      [] run[1] = "c3a9" -> <<"e-acute", run[2]>>
      [] OTHER -> <<"fffd", run[2]>>
decode_runs(data) == [i \in 1..Len(data) |-> decode_run(data[i])]

\* .strip()
RECURSIVE lstrip(_)
lstrip(s) == IF s /= <<>> /\ Head(s)[1] = "sp" THEN lstrip(Tail(s)) ELSE s
RECURSIVE rstrip(_)
rstrip(s) ==
    IF s /= <<>> /\ s[Len(s)][1] = "sp" THEN rstrip(SubSeq(s, 1, Len(s) - 1)) ELSE s
strip(s) == rstrip(lstrip(s))

\* if len(banner) > MAX_BANNER_LEN: banner = banner[:MAX_BANNER_LEN] + "..."
cut_banner(banner) ==
    IF str_len(banner) > MAX_BANNER_LEN
    THEN take(banner, MAX_BANNER_LEN) \o <<<<"dot", 3>>>>
    ELSE banner

\* _grab_single from the recv on, for port 22 (no probe, no TLS).
grab_single(port, sent) ==
    LET banner == strip(decode_runs(recv(sent, RECV_SIZE)))
    IN  IF banner = <<>> THEN <<>>
        ELSE << [port |-> port, service_name |-> banner_port_name(port),
                 banner |-> cut_banner(banner), tls |-> banner_port_tls(port),
                 tls_version |-> None] >>

\* What a host sends on the connection: blanks, then text of one kind,
\* then blanks.
SentBytes ==
    { Run("sp", lead) \o Run(kind, n) \o Run("sp", trail) :
        lead \in {0, 2}, trail \in {0, 1}, kind \in {"a", "c3a9", "ff"},
        n \in 0..(RECV_SIZE + MaxExtra) }

BannerInit ==
    /\ net_log = {}
    /\ UPnPIdle /\ CoAPIdle /\ MQTTIdle /\ PipeIdle /\ ApiIdle /\ MDNSIdle /\ ProbeIdle /\ CodecIdle /\ ClassifyIdle /\ StagesIdle /\ SockIdle /\ GrabIdle /\ TimeIdle /\ WorkersIdle /\ EnumIdle /\ PortsIdle /\ ScopesIdle /\ ReaderIdle /\ RateIdle
    /\ bn_pc = "grab"
    /\ bn_sent \in SentBytes
    /\ bn_result = <<>>
    /\ bn_banners = EmptyDict
    /\ bn_services = <<>>

\* result = _grab_single(device.address, port, config, per_port)
BnGrab ==
    /\ bn_pc = "grab"
    /\ bn_result' = grab_single(22, bn_sent)
    /\ bn_pc' = "record"
    /\ net_log' = {TcpConnect("banner_grabber", "192.168.1.20", 22)}
    /\ UNCHANGED <<bn_sent, bn_banners, bn_services, exceptBanner>>

\* if result: device.banners[port] = result.banner; device.services.append
BnRecord ==
    /\ bn_pc = "record"
    /\ IF bn_result /= <<>>
       THEN LET result == bn_result[1]
            IN  /\ bn_banners' = Put(bn_banners, result.port, result.banner)
                /\ bn_services' = Append(bn_services,
                      [port |-> result.port, name |-> result.service_name,
                       banner |-> result.banner, tls |-> result.tls,
                       tls_version |-> result.tls_version])
       ELSE UNCHANGED <<bn_banners, bn_services>>
    /\ bn_pc' = "done"
    /\ net_log' = {}
    /\ UNCHANGED <<bn_sent, bn_result, exceptBanner>>

BannerNext == BnGrab \/ BnRecord

SpecBanner == BannerInit /\ [][BannerNext]_vars

(***************************************************************************)
(* Per-port timeout of BannerGrabber (protocols/banner.py, enrich)         *)
(***************************************************************************)
PER_PORT_TIMEOUT == 2
\* Largest stage timeout, in seconds, that is tried.
MaxStageTimeout == 30

\* The ports that the converters of the pipeline put into device.port.
DevicePorts == {0, 80, 1883, 5683, 8009}

\* Seconds as fractions num/den with den > 0.
Frac(num, den) == [num |-> num, den |-> den]
frac_le(a, b) == a.num * b.den <= b.num * a.den
frac_times(k, a) == Frac(k * a.num, a.den)
frac_min(a, b) == IF frac_le(a, b) THEN a ELSE b

\* per_port = min(PER_PORT_TIMEOUT, timeout / max(len(self._ports), 1))
per_port(timeout, ports) ==
    frac_min(Frac(PER_PORT_TIMEOUT, 1), Frac(timeout, Max(Len(ports), 1)))

\* ports_to_scan for a device of which only the port matters
ports_for(port) == ports_to_scan([port |-> port])

PortsInit ==
    /\ net_log = {}
    /\ UPnPIdle /\ CoAPIdle /\ MQTTIdle /\ PipeIdle /\ ApiIdle /\ MDNSIdle /\ ProbeIdle /\ CodecIdle /\ ClassifyIdle /\ StagesIdle /\ SockIdle /\ GrabIdle /\ TimeIdle /\ WorkersIdle /\ EnumIdle /\ BannerIdle /\ ScopesIdle /\ ReaderIdle /\ RateIdle
    /\ pt_pc = "enrich"
    /\ pt_timeout \in 1..MaxStageTimeout
    /\ pt_port \in DevicePorts
    /\ pt_per_port = <<>>
    /\ pt_ports = <<>>
    /\ pt_i = 0
    /\ pt_waits = 0

\* The statements of enrich before its loop.
PtEnrich ==
    /\ pt_pc = "enrich"
    /\ pt_per_port' = per_port(pt_timeout, BANNER_PORTS)
    /\ pt_ports' = ports_for(pt_port)
    /\ pt_i' = 1
    /\ pt_pc' = "loop"
    /\ net_log' = {}
    /\ UNCHANGED <<pt_timeout, pt_port, pt_waits, exceptPorts>>

\* result = _grab_single(device.address, port, config, per_port): the host
\* answers or refuses at once, or the connect runs into its timeout.
PtGrab ==
    /\ pt_pc = "loop"
    /\ pt_i <= Len(pt_ports)
    /\ \E timed_out \in BOOLEAN :
          pt_waits' = IF timed_out THEN pt_waits + 1 ELSE pt_waits
    /\ pt_i' = pt_i + 1
    /\ net_log' = {TcpConnect("banner_grabber", "192.168.1.20", pt_ports[pt_i])}
    /\ UNCHANGED <<pt_pc, pt_timeout, pt_port, pt_per_port, pt_ports, exceptPorts>>

\* return device
PtReturn ==
    /\ pt_pc = "loop"
    /\ pt_i > Len(pt_ports)
    /\ pt_pc' = "returned"
    /\ net_log' = {}
    /\ UNCHANGED <<pt_timeout, pt_port, pt_per_port, pt_ports, pt_i, pt_waits, exceptPorts>>

PortsNext == PtEnrich \/ PtGrab \/ PtReturn

SpecPorts == PortsInit /\ [][PortsNext]_vars

(***************************************************************************)
(* WSDMetadataEnricher on scope lists (protocols/enrichment.py)            *)
(***************************************************************************)
\* Longest scope list of a d:Scopes element that is tried.
MaxScopes == 3

ScopePool ==
    {ScopeName, ScopeType, ScopeHardware, ScopeLocation, ScopeTypeEmpty,
     ScopeNameUpper, ScopeNameNested}

ScopeLists == UNION {[1..n -> ScopePool] : n \in 1..MaxScopes}

ScopesInit ==
    /\ net_log = {}
    /\ UPnPIdle /\ CoAPIdle /\ MQTTIdle /\ PipeIdle /\ ApiIdle /\ MDNSIdle /\ ProbeIdle /\ CodecIdle /\ ClassifyIdle /\ StagesIdle /\ SockIdle /\ GrabIdle /\ TimeIdle /\ WorkersIdle /\ EnumIdle /\ BannerIdle /\ PortsIdle /\ ReaderIdle /\ RateIdle
    /\ sc_pc = "types"
    /\ sc_types \in {None, "dn:NetworkVideoTransmitter"}
    /\ sc_scopes \in ScopeLists
    /\ sc_i = 0
    /\ sc_dev = device_from_wsd(W1)

\* types_el: device.friendly_name = device.friendly_name or types_el.text
ScTypes ==
    /\ sc_pc = "types"
    /\ sc_dev' = IF Truthy(sc_types)
                 THEN [sc_dev EXCEPT !.friendly_name = Or(@, sc_types)] ELSE sc_dev
    /\ sc_i' = 1
    /\ sc_pc' = "scopes"
    /\ net_log' = {}
    /\ UNCHANGED <<sc_types, sc_scopes, exceptScopes>>

\* One iteration of `for scope in scopes.split()`.
ScScope ==
    /\ sc_pc = "scopes"
    /\ sc_i <= Len(sc_scopes)
    /\ sc_dev' = parse_wsd_scopes(sc_dev, <<sc_scopes[sc_i]>>)
    /\ sc_i' = sc_i + 1
    /\ net_log' = {}
    /\ UNCHANGED <<sc_pc, sc_types, sc_scopes, exceptScopes>>

\* xaddrs_el: device.device_url = the first address; return device
ScReturn ==
    /\ sc_pc = "scopes"
    /\ sc_i > Len(sc_scopes)
    /\ sc_dev' = [sc_dev EXCEPT !.device_url = "http://192.168.1.20/onvif/device_service"]
    /\ sc_pc' = "returned"
    /\ net_log' = {}
    /\ UNCHANGED <<sc_types, sc_scopes, sc_i, exceptScopes>>

ScopesNext == ScTypes \/ ScScope \/ ScReturn

SpecScopes == ScopesInit /\ [][ScopesNext]_vars

(***************************************************************************)
(* MQTTDiscovery._probe_broker against the reader thread of the client     *)
(* (protocols/mqtt.py).  loop_start() runs one thread that calls           *)
(* on_message for each PUBLISH; the main thread sleeps through the two     *)
(* collection windows and then assembles the result, statement by          *)
(* statement, while the reader is still running.                           *)
(***************************************************************************)
\* Messages delivered after the last sleep of the main thread.
MaxLate == 1

ReaderTimeouts == {1000, 10000}

\* The topic of the next message: a name the broker has not used yet, or the
\* first name again; under $SYS/, and outside once # has been subscribed.
NextTopics(state, subscribed) ==
    { SysTopicName(Cardinality(DOMAIN state.sys_data) + 1), SysTopicName(1) }
    \cup (IF subscribed
          THEN {TopicName(Cardinality(state.sampled_topics) + 1), TopicName(1)}
          ELSE {})

\* Whether the message left the shared state without its topic.
left_out(state, topic) ==
    IF is_sys_topic(topic) THEN topic \notin DOMAIN state.sys_data
    ELSE topic \notin state.sampled_topics
dropped_kinds(state, topic) ==
    IF left_out(state, topic)
    THEN {IF is_sys_topic(topic) THEN "sys" ELSE "topic"} ELSE {}

ReaderInit ==
    /\ net_log = {}
    /\ UPnPIdle /\ CoAPIdle /\ MQTTIdle /\ PipeIdle /\ ApiIdle /\ MDNSIdle /\ ProbeIdle /\ CodecIdle /\ ClassifyIdle /\ StagesIdle /\ SockIdle /\ GrabIdle /\ TimeIdle /\ WorkersIdle /\ EnumIdle /\ BannerIdle /\ PortsIdle /\ ScopesIdle /\ RateIdle
    /\ rd_pc = "sys"
    /\ rd_timeout \in ReaderTimeouts
    /\ rd_state = [sys_data |-> EmptyDict, sampled_topics |-> {}]
    /\ rd_result = [broker_result("192.168.1.20", 1883, FALSE)
                       EXCEPT !.anonymous_access = TRUE]
    /\ rd_dropped = {}
    /\ rd_late = 0

\* Reader thread: on_message for one PUBLISH.
RdMessage ==
    /\ rd_pc \in {"sys", "topics"}
    /\ \E topic \in NextTopics(rd_state, rd_pc = "topics") :
          /\ rd_state' = on_message(rd_state, topic, "p")
          /\ rd_dropped' = rd_dropped \cup dropped_kinds(rd_state', topic)
    /\ net_log' = {}
    /\ UNCHANGED <<rd_pc, rd_timeout, rd_result, rd_late, exceptReader>>

\* Reader thread: on_message while the main thread assembles the result.
RdLateMessage ==
    /\ rd_pc \in {"sorted", "count", "rest"}
    /\ rd_late < MaxLate
    /\ \E topic \in NextTopics(rd_state, remaining_after_sys(rd_timeout) > 500) :
          /\ rd_state' = on_message(rd_state, topic, "p")
          /\ rd_dropped' = rd_dropped \cup dropped_kinds(rd_state', topic)
    /\ rd_late' = rd_late + 1
    /\ net_log' = {}
    /\ UNCHANGED <<rd_pc, rd_timeout, rd_result, exceptReader>>

\* Main thread: time.sleep(sys_collect_time) is over; _parse_sys_data, and
\* the subscription to # when more than half a second is left.
RdSysEnd ==
    /\ rd_pc = "sys"
    /\ rd_result' = parse_sys_data(rd_state.sys_data, rd_result)
    /\ rd_pc' = IF remaining_after_sys(rd_timeout) > 500 THEN "topics" ELSE "sorted"
    /\ net_log' = {}
    /\ UNCHANGED <<rd_timeout, rd_state, rd_dropped, rd_late, exceptReader>>

\* Main thread: time.sleep(actual_collect) is over; client.unsubscribe("#")
RdTopicsEnd ==
    /\ rd_pc = "topics"
    /\ rd_pc' = "sorted"
    /\ net_log' = {}
    /\ UNCHANGED <<rd_timeout, rd_state, rd_result, rd_dropped, rd_late, exceptReader>>

\* Main thread: result["sampled_topics"] = sorted(state.sampled_topics)
RdSorted ==
    /\ rd_pc = "sorted"
    /\ rd_result' = [rd_result EXCEPT
                        !.sampled_topics = sorted_topics(rd_state.sampled_topics)]
    /\ rd_pc' = "count"
    /\ net_log' = {}
    /\ UNCHANGED <<rd_timeout, rd_state, rd_dropped, rd_late, exceptReader>>

\* Main thread: result["topic_count"] = len(state.sampled_topics)
RdCount ==
    /\ rd_pc = "count"
    /\ rd_result' = [rd_result EXCEPT
                        !.topic_count = Cardinality(rd_state.sampled_topics)]
    /\ rd_pc' = "rest"
    /\ net_log' = {}
    /\ UNCHANGED <<rd_timeout, rd_state, rd_dropped, rd_late, exceptReader>>

\* Main thread: the test publish, result["metadata"] = dict(state.sys_data),
\* the risk flags, loop_stop() and the return.
RdReturn ==
    /\ rd_pc = "rest"
    /\ \E published \in BOOLEAN :
          LET r1 == [rd_result EXCEPT
                        !.anonymous_publish = IF published THEN TRUE ELSE @,
                        !.metadata = metadata_of(rd_state.sys_data)]
          IN  rd_result' = [r1 EXCEPT !.risk_flags = mqtt_risk_flags(r1)]
    /\ rd_pc' = "returned"
    /\ net_log' = {}
    /\ UNCHANGED <<rd_timeout, rd_state, rd_dropped, rd_late, exceptReader>>

ReaderNext ==
    \/ RdMessage
    \/ RdLateMessage
    \/ RdSysEnd
    \/ RdTopicsEnd
    \/ RdSorted
    \/ RdCount
    \/ RdReturn

SpecReader == ReaderInit /\ [][ReaderNext]_vars

(***************************************************************************)
(* rate_limit (main.py), a dependency that is a plain `def`: the framework *)
(* runs it on a worker thread per request, so that two requests of one     *)
(* client execute its statements interleaved.  The local `bucket` is a     *)
(* reference: it is the list that was in the dict at setdefault, which     *)
(* other threads append to as long as the dict still holds it.             *)
(***************************************************************************)
window_seconds == 60
max_requests == 10

WorkerThreads == {"w1", "w2"}
\* Requests of the client that are tried in all, how far the clock runs,
\* and the step of the clock.
MaxRequests == 11
MaxClock == 60
TickSeconds == 60

\* [t for t in bucket if now - t < window_seconds]
fresh(bucket, now) == SelectSeq(bucket, LAMBDA t : now - t < window_seconds)

\* len(app.state.rate_limits[client_ip]) >= max_requests
limit_reached(bucket) == Len(bucket) >= max_requests

\* The list a local `bucket` refers to: the one in the dict, or one that the
\* dict has dropped since.
Alias == [alias |-> TRUE, value |-> <<>>]
Stale(list) == [alias |-> FALSE, value |-> list]
deref(ref, current) == IF ref.alias THEN current ELSE ref.value

RateInit ==
    /\ net_log = {}
    /\ UPnPIdle /\ CoAPIdle /\ MQTTIdle /\ PipeIdle /\ ApiIdle /\ MDNSIdle /\ ProbeIdle /\ CodecIdle /\ ClassifyIdle /\ StagesIdle /\ SockIdle /\ GrabIdle /\ TimeIdle /\ WorkersIdle /\ EnumIdle /\ BannerIdle /\ PortsIdle /\ ScopesIdle /\ ReaderIdle
    /\ rl_clock = 0
    /\ rl_current = <<>>
    /\ rl_pc = [w \in WorkerThreads |-> "idle"]
    /\ rl_now = [w \in WorkerThreads |-> 0]
    /\ rl_bucket = [w \in WorkerThreads |-> Alias]
    /\ rl_passed = <<>>
    /\ rl_started = 0
    /\ rl_overlap = FALSE

\* Time passes.
RlTick ==
    /\ rl_clock + TickSeconds <= MaxClock
    /\ rl_clock' = rl_clock + TickSeconds
    /\ net_log' = {}
    /\ UNCHANGED <<rl_current, rl_pc, rl_now, rl_bucket, rl_passed, rl_started,
                   rl_overlap, exceptRate>>

\* now = time.monotonic(); bucket = app.state.rate_limits.setdefault(ip, [])
RlEnter(w) ==
    /\ rl_pc[w] = "idle"
    /\ rl_started < MaxRequests
    /\ rl_started' = rl_started + 1
    /\ rl_now' = [rl_now EXCEPT ![w] = rl_clock]
    /\ rl_bucket' = [rl_bucket EXCEPT ![w] = Alias]
    /\ rl_pc' = [rl_pc EXCEPT ![w] = "filter"]
    /\ rl_overlap' = (rl_overlap \/ \E v \in WorkerThreads \ {w} : rl_pc[v] /= "idle")
    /\ net_log' = {}
    /\ UNCHANGED <<rl_clock, rl_current, rl_passed, exceptRate>>

\* app.state.rate_limits[client_ip] = [t for t in bucket if ...]: a new list
\* takes the place of the one in the dict.
RlFilter(w) ==
    /\ rl_pc[w] = "filter"
    /\ rl_current' = fresh(deref(rl_bucket[w], rl_current), rl_now[w])
    /\ rl_bucket' = [v \in WorkerThreads |->
                        IF v /= w /\ rl_pc[v] /= "idle" /\ rl_bucket[v].alias
                        THEN Stale(rl_current)
                        ELSE IF v = w THEN Stale(deref(rl_bucket[w], rl_current))
                        ELSE rl_bucket[v]]
    /\ rl_pc' = [rl_pc EXCEPT ![w] = "check"]
    /\ net_log' = {}
    /\ UNCHANGED <<rl_clock, rl_now, rl_passed, rl_started, rl_overlap, exceptRate>>

\* if len(app.state.rate_limits[client_ip]) >= max_requests: raise 429
RlCheck(w) ==
    /\ rl_pc[w] = "check"
    /\ rl_pc' = [rl_pc EXCEPT ![w] = IF limit_reached(rl_current) THEN "idle" ELSE "append"]
    /\ rl_bucket' = [rl_bucket EXCEPT ![w] = IF limit_reached(rl_current) THEN Alias ELSE @]
    /\ net_log' = {}
    /\ UNCHANGED <<rl_clock, rl_current, rl_now, rl_passed, rl_started, rl_overlap,
                   exceptRate>>

\* app.state.rate_limits[client_ip].append(now); the request goes on to
\* discover()
RlAppend(w) ==
    /\ rl_pc[w] = "append"
    /\ rl_current' = Append(rl_current, rl_now[w])
    /\ rl_passed' = Append(rl_passed, rl_now[w])
    /\ rl_pc' = [rl_pc EXCEPT ![w] = "idle"]
    /\ rl_bucket' = [rl_bucket EXCEPT ![w] = Alias]
    /\ net_log' = {}
    /\ UNCHANGED <<rl_clock, rl_now, rl_started, rl_overlap, exceptRate>>

RateNext ==
    \/ RlTick
    \/ \E w \in WorkerThreads : RlEnter(w)
    \/ \E w \in WorkerThreads : RlFilter(w)
    \/ \E w \in WorkerThreads : RlCheck(w)
    \/ \E w \in WorkerThreads : RlAppend(w)

SpecRate == RateInit /\ [][RateNext]_vars

(***************************************************************************)
(* C1, C2                                                                  *)
(***************************************************************************)
HttpGets == {e \in net_log : e.ev = "http_get"}
XmlParses == {e \in net_log : e.ev = "xml_parse"}

\* C1: every HTTP GET for a LOCATION, by discovery and by the deep enricher,
\* has scheme http/https and a checked address (literal or resolved) that is
\* private, link-local or loopback; no GET exists for any other LOCATION.
C1_FetchOnlyAllowed ==
    \A e \in HttpGets :
        /\ urlparse(e.url).scheme \in {"http", "https"}
        /\ e.ip \in IPLiterals
        /\ AllowedTarget(e.ip)
        /\ e.url /= "http://8.8.8.8/d.xml"

\* The deep enricher has just issued a GET to a resolved host name, for a
\* record that discovery collected next to one with a public LOCATION.
C1_Witness ==
    /\ \E e \in HttpGets : e.by = "upnp_deep" /\ e.url = "http://cam.lan/d.xml"
    /\ \E i \in 1..Len(discovered) :
          Get(discovered[i], "LOCATION") = "http://8.8.8.8/d.xml"

\* C2: every body parsed came with status 200, an xml Content-Type and at
\* most max_bytes of body; no GET follows redirects or trusts the environment.
C2_ParseOnlyVetted ==
    /\ \A e \in XmlParses :
          e.status = 200 /\ ContentTypeHasXml(e.ctype) /\ e.size <= max_bytes
    /\ \A e \in HttpGets : ~e.allow_redirects /\ ~e.trust_env

(***************************************************************************)
(* C3                                                                      *)
(***************************************************************************)
Multicast(dst) == dst \in {COAP_MCAST_IPV4, COAP_MCAST_IPV6}

\* C3: every datagram sent to a unicast address goes to a private, link-local
\* or loopback address, and every device of the result has such an address.
C3_CoapOnlyAllowed ==
    /\ \A e \in net_log :
          e.ev = "udp" /\ ~Multicast(e.dst) => is_safe_ip(e.dst)
    /\ coap_pc = "done" =>
          \A i \in 1..Len(coap_results) : is_safe_ip(coap_results[i]["address"])

(***************************************************************************)
(* C4                                                                      *)
(***************************************************************************)
TcpConnects == {e \in net_log : e.ev = "tcp_connect"}

\* C4: every TCP connection the MQTT engine or the banner grabber opens goes
\* to a private, link-local or loopback address.
C4_TcpOnlyAllowed ==
    \A e \in TcpConnects : e.host \in IPLiterals /\ AllowedTarget(e.host)

(***************************************************************************)
(* C6, C7, C8, C9                                                          *)
(***************************************************************************)
Ran(i) == pipe_state[i] \in {"finished", "collected"}
OfferedNames(i) == [k \in 1..Len(pipe_offered[i]) |-> pipe_offered[i][k].name]

\* C6: when a stage raised for a device, an error entry that begins with the
\* stage's name is in the device's enrichment_errors, and the device was
\* offered to every registered stage, in registration order.
C6_RaiseIsRecordedAndSkipped ==
    \A i \in 1..Len(pipe_state) :
        Ran(i) =>
            /\ OfferedNames(i) = StageNames
            /\ \A k \in 1..Len(pipe_offered[i]) :
                  pipe_offered[i][k].raised =>
                      \E e \in 1..Len(pipe_devices[i].enrichment_errors) :
                          pipe_devices[i].enrichment_errors[e][1] = pipe_offered[i][k].name

C6_Witness ==
    \E i \in 1..Len(pipe_state) :
        /\ Ran(i)
        /\ pipe_offered[i][1].raised
        /\ Len(pipe_offered[i]) = Len(StageNames)
        /\ pipe_devices[i].enrichment_errors = << <<"upnp_deep", "Invalid IPv6 URL">> >>

\* C7: every DeviceInfo enrich_all returned has a device_category that is
\* neither None nor empty.
C7_CategoryAlwaysSet ==
    pipe_pc \in {"returned", "applied"} =>
        \A k \in 1..Len(pipe_enriched) :
            Truthy(pipe_devices[pipe_enriched[k]].device_category)

C7_Witness ==
    /\ pipe_pc = "returned"
    /\ \E k \in 1..Len(pipe_enriched) :
          /\ pipe_devices[pipe_enriched[k]].device_category = "unknown"
          /\ pipe_devices[pipe_enriched[k]].enrichment_errors /= <<>>
    /\ \E k \in 1..Len(pipe_enriched) :
          pipe_devices[pipe_enriched[k]].device_category = "printer"

\* C8: the list enrich_all returns is as long as its input and holds at
\* position i the object that was device i (enriched, or as it was left when
\* its worker raised), whatever the order of completion.
C8_ResultsKeepInputOrder ==
    /\ \A i \in 1..Len(pipe_results) : pipe_results[i] \in {0, i}
    /\ pipe_pc \in {"returned", "applied"} =>
          /\ Len(pipe_enriched) = Len(pipe_devices)
          /\ \A i \in 1..Len(pipe_enriched) : pipe_enriched[i] = i

\* The second device completed and was collected before the first.
C8_Witness ==
    /\ pipe_pc = "run"
    /\ Len(pipe_results) = 2
    /\ pipe_results[1] = 0
    /\ pipe_results[2] = 2
    /\ pipe_state[1] = "finished"

\* The object number of the DeviceInfo built from record k of protocol p.
RECURSIVE Offset(_, _)
Offset(protos, p) ==
    IF Head(protos) = p THEN 0
    ELSE Len(scan_results[Head(protos)]) + Offset(Tail(protos), p)
BuiltFrom(p, k) == Offset(Protocols, p) + k

Without(d, key) == [x \in DOMAIN d \ {key} |-> d[x]]

\* C9: after apply_enrichment every raw record carries the fingerprint of the
\* DeviceInfo built from it, and is otherwise the record it was, in place.
C9_FingerprintOnOwnRecord ==
    pipe_pc = "applied" =>
        \A n \in 1..Len(Protocols) :
            LET p == Protocols[n] IN
            \A k \in 1..Len(scan_results[p]) :
                LET rec == scan_results[p][k]
                    dev == pipe_devices[BuiltFrom(p, k)]
                IN  /\ "fingerprint" \in DOMAIN rec
                    /\ rec["fingerprint"] = fingerprint_dict(dev)
                    /\ Without(rec, "fingerprint") = dev.raw_data
                    /\ dev.protocol = p

C9_Witness ==
    /\ pipe_pc = "applied"
    /\ Len(scan_results["mdns"]) = 2
    /\ scan_results["mdns"][1]["fingerprint"].device_category = "unknown"
    /\ scan_results["mdns"][2]["fingerprint"].device_category = "printer"

(***************************************************************************)
(* C5, C10                                                                 *)
(***************************************************************************)
\* C5: a request that passed validation runs the engine of each of the five
\* protocols exactly when it selects that protocol or "all", and the
\* response array of the protocol holds the records of that engine.
C5_EngineRunsIffSelected ==
    api_status = 200 =>
        \A n \in 1..Len(Protocols) :
            LET p == Protocols[n] IN
            /\ InSeq(p, api_ran) <=> api_query.protocol \in {p, "all"}
            /\ Len(api_response[p]) = Len(proto_list(api_results, p))

Sockets == {e \in net_log : e.ev = "socket"}
Rejected400 ==
    /\ api_ran = <<>>
    /\ net_log = {}
    /\ api_pc \in {"request", "done"}
    /\ api_pc = "done" => api_status = 400

\* C10 as amended: a request whose non-empty interface_ip is a loopback
\* address or is not a valid IP is answered 400, no engine has run and no
\* socket was opened.
C10_BadInterfaceRejected ==
    LET ip == api_request.interface_ip
    IN  (Truthy(ip) /\ (is_loopback(ip) \/ not_an_ip(ip))) => Rejected400

C10_Witness ==
    /\ api_request.interface_ip = "127.0.0.1"
    /\ matches_pattern(api_request.protocol)
    /\ api_pc = "done"
    /\ api_status = 400

\* C10 as written: every interface_ip that is given and is a loopback address
\* or not a valid IP (the empty string is not one) leads to the 400.
C10_AsWritten ==
    LET ip == api_request.interface_ip
    IN  (ip /= None /\ (is_loopback(ip) \/ not_an_ip(ip))) => Rejected400
(***************************************************************************)
(* C11, C12                                                                *)
(***************************************************************************)
ResolverCreated == mdns_resolvers > 0

\* C11: one call of discover constructs at most one resolver however many
\* service types it browses, every browser is given that resolver, and once
\* discover has been left, by return or by an exception, the resolver that
\* was constructed has been closed exactly once.
C11_OneResolverClosedOnce ==
    /\ mdns_resolvers <= 1
    /\ mdns_pc \in {"browse", "sleep", "raised"} => mdns_resolvers = 1
    /\ \A b \in 1..Len(mdns_browsers) : mdns_browsers[b].resolver = 1
    /\ mdns_closes <= mdns_resolvers
    /\ mdns_pc \in {"browse", "sleep"} => mdns_closes = 0
    /\ mdns_pc \in {"done", "raised"} => mdns_closes = mdns_resolvers

\* Creating the second browser raised after the first was created, and the
\* resolver was closed.
C11_Witness ==
    /\ mdns_pc = "raised"
    /\ Len(mdns_types) = 2
    /\ Len(mdns_browsers) = 1
    /\ mdns_resolvers = 1
    /\ mdns_closes = 1

\* The names add_service was called with.
Added == {mdns_events[i].name : i \in {j \in 1..Len(mdns_events) :
                                          mdns_events[j].ev = "add_service"}}

ServiceKeys(services) == {services[i].key : i \in 1..Len(services)}

\* C12: every name add_service was called with is a key of listener.services
\* from then on and names a record of the list discover returns; a
\* remove_service callback leaves listener.services as it was.
C12_AddedStays ==
    /\ Added \subseteq ServiceKeys(mdns_services)
    /\ (mdns_pc = "done" /\ ResolverCreated) =>
          \A n \in Added :
              \E i \in 1..Len(mdns_result) : mdns_result[i].name = n
    /\ \A e \in net_log :
          e.ev = "remove_service" => mdns_services = e.before

\* A name was added, a remove callback for it was delivered, and the scan has
\* returned.
C12_Witness ==
    /\ mdns_pc = "done"
    /\ mdns_events = << [ev |-> "add_service", name |-> "Office._ipp._tcp.local."],
                        [ev |-> "remove_service", name |-> "Office._ipp._tcp.local."] >>
    /\ Len(mdns_result) = 1
    /\ mdns_result[1].name = "Office._ipp._tcp.local."
    /\ "addresses" \in DOMAIN mdns_result[1]
    /\ mdns_result[1].addresses = <<"192.168.1.20", "10.0.0.7">>
(***************************************************************************)
(* C13, C14, C15                                                           *)
(***************************************************************************)
InSent(packet) == \E i \in 1..Len(probe_sent) : probe_sent[i] = packet

\* C13: after a CONNACK with a non-zero return code the probe has returned
\* a record with anonymous_access false and no sampled topics, and the
\* client sent CONNECT and DISCONNECT only: no SUBSCRIBE and no PUBLISH.
C13_RefusedConnectStopsProbe ==
    probe_rc > 0 =>
        /\ probe_pc = "done"
        /\ probe_sent = <<"CONNECT", "DISCONNECT">>
        /\ \A i \in 1..2 :
              /\ Len(probe_return[i]) = 1
              /\ probe_return[i][1].anonymous_access = FALSE
              /\ probe_return[i][1].sampled_topics = <<>>
              /\ probe_return[i][1].topic_count = 0

C13_Witness ==
    /\ probe_rc = 5
    /\ probe_pc = "done"
    /\ Len(probe_return[1]) = 1
    /\ probe_return[1][1].address = "192.168.1.20"

HasFlag(rec, flag) == \E i \in 1..Len(rec.risk_flags) : rec.risk_flags[i] = flag

\* C14: every record MQTT discovery returned has open_broker among its risk
\* flags exactly when anonymous_access is true, anonymous_publish exactly
\* when the test publish succeeded, and no_tls exactly when tls_supported is
\* false.
C14_RiskFlagsMatchRecord ==
    \A i \in 1..Len(mqtt_results) :
        LET rec == mqtt_results[i] IN
        /\ HasFlag(rec, "open_broker") <=> rec.anonymous_access
        /\ HasFlag(rec, "anonymous_publish") <=> rec.anonymous_publish
        /\ HasFlag(rec, "no_tls") <=> ~rec.tls_supported

SameSysPayloads ==
    \A i \in 1..Len(probe_msgs) :
        is_sys_topic(probe_msgs[i].topic) =>
            probe_msgs[i].payload[1] = probe_msgs[i].payload[2]

C16_OptionRoundTrip ==
    codec_pc = "parsed" =>
        codec_out = << [version |-> COAP_VERSION,
                        type |-> codec_in.msg_type,
                        code |-> codec_in.code,
                        message_id |-> codec_in.message_id,
                        token |-> codec_in.token,
                        options |-> [i \in 1..Len(codec_in.segments) |->
                                        <<OPTION_URI_PATH,
                                          utf8_encode(codec_in.segments[i])>>],
                        payload |-> <<>>] >>

\* A 300-byte segment followed by a 13-byte one went through the codec.
C16_Witness ==
    /\ codec_pc = "parsed"
    /\ Len(codec_in.segments) = 2
    /\ Len(utf8_encode(codec_in.segments[1])) = 300
    /\ Len(codec_in.segments[1]) = 150
    /\ Len(codec_in.segments[2]) = 13
    /\ Len(codec_out) = 1
    /\ Len(codec_out[1].options) = 2
(***************************************************************************)
(* C17                                                                     *)
(***************************************************************************)
\* C17: every record CoAP discovery returned has unauthenticated_access
\* among its risk flags exactly when its unauthenticated_access is true,
\* no_dtls exactly when its dtls_supported is not true (false, or never set
\* because the DTLS phase did not run), and observable_data_leak exactly
\* when its observable_resources is not empty.
C17_CoapRiskFlagsMatchRecord ==
    coap_pc = "done" =>
        \A i \in 1..Len(coap_results) :
            LET rec == coap_results[i] IN
            /\ "risk_flags" \in DOMAIN rec
            /\ HasFlag(rec, "unauthenticated_access")
                  <=> GetOr(rec, "unauthenticated_access", FALSE)
            /\ HasFlag(rec, "no_dtls") <=> ~GetOr(rec, "dtls_supported", FALSE)
            /\ HasFlag(rec, "observable_data_leak")
                  <=> GetOr(rec, "observable_resources", <<>>) /= <<>>

\* A device with an observable resource is returned by a scan whose DTLS
\* phase did not run.
C17_Witness ==
    /\ coap_pc = "done"
    /\ \E i \in 1..Len(coap_results) :
          /\ "dtls_supported" \notin DOMAIN coap_results[i]
          /\ coap_results[i]["risk_flags"] =
                <<"unauthenticated_access", "no_dtls", "observable_data_leak">>
(***************************************************************************)
(* C18: the classifier assigns the category of a matching rule that no     *)
(* matching rule outranks and merges that rule's tags into device_tags,    *)
(* keeping every tag the device had and repeating none; when no rule       *)
(* matches, a device without a category gets "unknown" and a category      *)
(* that was already set is kept.                                           *)
(***************************************************************************)
\* The rules of the classifier that match the device as enrich received it.
MatchingRules == ToSet(rules_or_default(cls_rules)) \cap blob_hits(cls_prev)

NoDuplicate(seq) == \A i, j \in 1..Len(seq) : i /= j => seq[i] /= seq[j]

TopRuleAssigned ==
    /\ cls_dev.device_category \in MatchingRules
    /\ \A r \in MatchingRules : priority(r) <= priority(cls_dev.device_category)
    /\ ToSet(cls_dev.device_tags) =
          ToSet(cls_prev.device_tags) \cup ToSet(rule_tags(cls_dev.device_category))
    /\ NoDuplicate(cls_dev.device_tags)

C18_TopRuleOrKeptCategory ==
    cls_calls > 0 =>
       IF MatchingRules /= {} THEN TopRuleAssigned
       ELSE /\ cls_dev.device_category =
                  (IF Truthy(cls_prev.device_category) THEN cls_prev.device_category
                   ELSE "unknown")
            /\ cls_dev.device_tags = cls_prev.device_tags

\* Reached: a device that arrives with a category and matches no rule keeps
\* it, and a device that matches two rules of different priority.
C18_Witness ==
    /\ cls_calls > 0
    /\ MatchingRules = {}
    /\ Truthy(cls_prev.device_category)
    /\ cls_dev.device_category = cls_prev.device_category

C18_WitnessTwoRules ==
    /\ cls_calls > 0
    /\ \E r1, r2 \in MatchingRules : priority(r1) < priority(r2)
    /\ cls_prev.device_tags /= <<>>

\* C18 as the specification words it: without a match the category is
\* "unknown".
C18_UnknownWithoutMatch ==
    cls_calls > 0 =>
       IF MatchingRules /= {} THEN TopRuleAssigned
       ELSE cls_dev.device_category = "unknown"
(***************************************************************************)
(* C19: when enrich_device of the default pipeline returns, os_guess is    *)
(* the first OS-table match over the UPnP SERVER header followed by the    *)
(* Server: lines of the banners the device carries, those BannerGrabber    *)
(* captured included.                                                      *)
(***************************************************************************)
\* The candidate list the claim describes, on the device as returned.
OsCandidates(device) ==
    LET server == GetOr(device.raw_data, "SERVER", "")
        texts == values_by_port(device.banners, ports_to_scan(device))
    IN  (IF Truthy(server) THEN <<server>> ELSE <<>>)
        \o Flatten([i \in 1..Len(texts) |-> server_lines(texts[i])])

C19_OsGuessFromBanners ==
    st_pc = "returned" => st_dev.os_guess = first_os(OsCandidates(st_dev))

(***************************************************************************)
(* C20: no enricher of the default pipeline replaces a non-empty           *)
(* friendly_name, manufacturer, model, firmware_version, serial_number,    *)
(* device_url, device_category or os_guess that the device carried when    *)
(* the enricher was offered it, the friendly_name under upnp_deep          *)
(* excepted.                                                               *)
(***************************************************************************)
AdditiveFields ==
    {"friendly_name", "manufacturer", "model", "firmware_version", "serial_number",
     "device_url", "device_category", "os_guess"}

\* The enricher that ran last.
LastStage == st_stages[st_idx - 1]

C20_NoStageReplaces ==
    (st_pc \in {"loop", "returned"} /\ st_idx > 1) =>
       \A f \in AdditiveFields :
          (Truthy(st_prev[f]) /\ ~(LastStage = "upnp_deep" /\ f = "friendly_name"))
             => st_dev[f] = st_prev[f]
(***************************************************************************)
(* C21: when an engine has left, by return or by exception, the socket it  *)
(* opened is closed.                                                       *)
(***************************************************************************)
C21_SocketsClosedOnExit ==
    \A i \in 1..Len(sock_exit) : sock_exit[i].engine \notin sock_open

(***************************************************************************)
(* C23: with an interface IP, an engine's probe is sent only after the     *)
(* engine bound its socket to that IP and set it as the outgoing           *)
(* multicast interface.                                                    *)
(***************************************************************************)
\* The call was made on the engine's socket, with this argument, and
\* succeeded, before position k of the trace.
DoneBefore(k, engine, call, arg) ==
    \E i \in 1..(k - 1) : sock_trace[i] = SysCall(engine, call, arg, TRUE)

C23_BoundBeforeProbe ==
    Truthy(sock_iface) =>
       \A k \in 1..Len(sock_trace) :
          (sock_trace[k].call = "sendto" /\ sock_trace[k].engine \in {"upnp", "wsd", "coap4"})
             => /\ DoneBefore(k, sock_trace[k].engine, "bind", sock_iface)
                /\ DoneBefore(k, sock_trace[k].engine, "set_if", sock_iface)

(***************************************************************************)
(* C24: a socket call failing in one engine never makes the caller fail:   *)
(* the engine is left and every engine of the plan still runs.             *)
(***************************************************************************)
C24_TransportFailureSkipsEngine ==
    /\ sock_pc /= "failed"
    /\ sock_pc = "done" => Len(sock_exit) = Len(sock_plan)
(***************************************************************************)
(* C22                                                                     *)
(***************************************************************************)
\* C22: when _grab_single has returned, the socket it opened for the port is
\* closed, whichever way the grab went, and the device's enrichment_errors
\* has no entry.
C22_GrabSocketClosed ==
    grab_pc \in {"returned", "done"} => (grab_fd /= "open" /\ grab_errors = <<>>)
(***************************************************************************)
(* C25                                                                     *)
(***************************************************************************)
\* C25: with timeout=1 a discover() that has returned took less than two
\* seconds, whatever responses arrived and whatever fetches they caused.
C25_ReturnsWithinTwoSeconds ==
    tm_pc = "returned" => tm_now < 2 * TicksPerSecond
(***************************************************************************)
(* C26                                                                     *)
(***************************************************************************)
\* C26: _parse_coap_response does not raise on a datagram that was cut
\* short: it returns None or a parsed message.
C26_ParserNeverRaises ==
    codec_pc = "parsed_cut" => codec_out /= ParserRaised
\* C26, in discovery: a datagram the parser chokes on does not end
\* discover(); the devices found so far are still returned.
C26_DiscoverySurvivesMalformed ==
    coap_pc /= "raised"
(***************************************************************************)
(* C27                                                                     *)
(***************************************************************************)
FailedFetch == {"rejected", "error", "status", "parse_error"}

\* C27: when the description fetch for a datagram was rejected or failed,
\* the record is the parsed headers plus the source address and nothing
\* else, it has neither name nor type, and it is in the list returned.
C27_FailedFetchKeepsRecord ==
    (upnp_last /= <<>> /\ upnp_last[1].fetch \in FailedFetch) =>
        LET last == upnp_last[1]
        IN  /\ last.device = Put(parse_response(last.response), "address", last.addr)
            /\ "name" \notin DOMAIN last.device
            /\ "type" \notin DOMAIN last.device
            /\ InList(last.device, discovered)

\* A datagram with a LOCATION whose server answered 404 was received.
C27_Witness ==
    /\ upnp_last /= <<>>
    /\ upnp_last[1].fetch = "status"
    /\ Truthy(Get(upnp_last[1].device, "LOCATION"))
    /\ InList(upnp_last[1].device, discovered)

\* Every way of failing happens.
C27_WitnessParseError ==
    /\ upnp_last /= <<>>
    /\ upnp_last[1].fetch = "parse_error"
    /\ Len(discovered) = 2
(***************************************************************************)
(* C28                                                                     *)
(***************************************************************************)
\* The raw records of a scan in the order devices_from_results visits them.
RECURSIVE RawRecords(_, _)
RawRecords(results, protos) ==
    IF protos = <<>> THEN <<>>
    ELSE results[Head(protos)] \o RawRecords(results, Tail(protos))

\* C28: the scan's raw records and its DeviceInfo objects correspond one to
\* one; at any moment at most one worker is running enrich_device on an
\* object, no object is ever handed to enrich_device twice, the stages run
\* on an object are the registered stages from the first on, in order, and
\* when enrich_all has returned every object went through all of them once.
C28_OneWorkerOncePerDevice ==
    wk_pc \in {"run", "returned"} =>
        LET raws == RawRecords(wk_scan, Protocols)
            running(i) == {t \in 1..Len(wk_tasks) :
                              wk_tasks[t] = i /\ wk_state[t] = "running"}
        IN  /\ Len(wk_devices) = Len(raws)
            /\ \A i \in 1..Len(raws) : wk_devices[i].raw_data = raws[i]
            /\ \A i \in 1..Len(wk_devices) :
                  /\ Cardinality(running(i)) <= 1
                  /\ wk_runs[i] <= 1
                  /\ wk_seen[i] = SubSeq(StageNames, 1, Len(wk_seen[i]))
                  /\ wk_pc = "returned" => (wk_runs[i] = 1 /\ wk_seen[i] = StageNames)

\* Two workers are inside enrich_device at once, each on its own object.
C28_Witness ==
    /\ wk_pc = "run"
    /\ Len(wk_devices) = 2
    /\ \A t \in 1..2 : wk_state[t] = "running" /\ wk_stage[t] \in 1..(Len(StageNames) - 1)
    /\ wk_worker[1] /= wk_worker[2]

\* enrich_all returned after two devices were enriched.
C28_WitnessReturned ==
    /\ wk_pc = "returned"
    /\ Len(wk_devices) = 2
    /\ \A i \in 1..2 : wk_seen[i] = StageNames
C29_WitnessReset ==
    /\ coap_heard /= <<>>
    /\ coap_heard[1].by = "coap.unicast"
    /\ coap_heard[1].resp.kind = "message"
    /\ coap_heard[1].resp.type = TYPE_RST
    /\ {e \in net_log : e.ev = "udp" /\ e.type = TYPE_ACK} = {}
C30_WitnessOpen ==
    /\ coap_pc = "done"
    /\ \E k \in 1..Len(coap_results) :
          /\ "resources" \in DOMAIN coap_results[k]
          /\ Len(coap_results[k]["resources"]) = 2
          /\ coap_results[k]["unauthenticated_access"] = TRUE
(***************************************************************************)
(* C31                                                                     *)
(***************************************************************************)
\* The GETs of the enumeration sent to one address.
GetsTo(ip) == {i \in 1..Len(en_gets) : en_gets[i].ip = ip}

\* The bodies that the enumeration's answers carry.
EnumPayloads == {resp.payload : resp \in {a \in EnumAnswers : a.kind = "message"}}

C31_WitnessSkipped ==
    /\ en_pc = "returned"
    /\ Len(en_devices) = 2
    /\ en_devices[2]["resources"][2]["uri"] = "/.well-known/core"
    /\ Cardinality(GetsTo(en_devices[2]["address"])) = 8
    /\ "payload_size" \in DOMAIN en_devices[2]["resources"][10]
(***************************************************************************)
(* C32                                                                     *)
(***************************************************************************)
\* C32: every banner that BannerGrabber records, in device.banners and in
\* the services entry of the same port, is at most 512 characters long,
\* whatever the host sent.
C32_BannerAtMost512 ==
    /\ \A port \in DOMAIN bn_banners : str_len(bn_banners[port]) <= 512
    /\ \A i \in 1..Len(bn_services) : str_len(bn_services[i].banner) <= 512

\* What the code keeps to: the banner is at most 512 characters of the
\* reply and the three dots of the ellipsis, and the two places agree.
C32_BannerAtMost515 ==
    /\ \A port \in DOMAIN bn_banners : str_len(bn_banners[port]) <= MAX_BANNER_LEN + 3
    /\ \A i \in 1..Len(bn_services) :
          /\ bn_services[i].port \in DOMAIN bn_banners
          /\ bn_services[i].banner = bn_banners[bn_services[i].port]
(***************************************************************************)
(* C33                                                                     *)
(***************************************************************************)
\* C33: the per-port timeout of BannerGrabber is at most 2 s and at most
\* the stage timeout divided by the number of ports scanned for the device
\* (the curated ports, and the device's own port when it is not curated),
\* so that the per-port timeouts of all scanned ports sum to at most the
\* stage timeout.
C33_PerPortSumWithinStage ==
    pt_pc \in {"loop", "returned"} =>
        /\ frac_le(pt_per_port, Frac(2, 1))
        /\ frac_le(pt_per_port, Frac(pt_timeout, Len(pt_ports)))
        /\ frac_le(frac_times(Len(pt_ports), pt_per_port), Frac(pt_timeout, 1))

\* What the code keeps to: the bound of 2 s, and the share of the stage
\* timeout by the number of curated ports.
C33_PerPortByCuratedPorts ==
    pt_pc \in {"loop", "returned"} =>
        /\ frac_le(pt_per_port, Frac(PER_PORT_TIMEOUT, 1))
        /\ frac_le(pt_per_port, Frac(pt_timeout, Len(BANNER_PORTS)))
        /\ frac_le(frac_times(pt_waits, pt_per_port),
                   Frac(pt_timeout * Len(pt_ports), Len(BANNER_PORTS)))

\* The connects of a scan of eleven ports all ran into the timeout and
\* took more than the stage timeout together.
C33_Overrun ==
    /\ pt_pc = "returned"
    /\ Len(pt_ports) = Len(BANNER_PORTS) + 1
    /\ pt_waits = Len(pt_ports)
    /\ ~frac_le(frac_times(pt_waits, pt_per_port), Frac(pt_timeout, 1))
(***************************************************************************)
(* C34                                                                     *)
(***************************************************************************)
\* The text of a scope behind its first "onvif.org/<word>/", wherever the
\* marker is found when case is ignored.
TextAfter(scope, word) ==
    LET s == lower(scope)
        at == CHOOSE i \in 1..Len(s) :
                 /\ i + 3 <= Len(s)
                 /\ s[i] \in {"www.onvif.org", "onvif.org"}
                 /\ s[i + 1] = "/" /\ s[i + 2] = word /\ s[i + 3] = "/"
                 /\ \A j \in 1..(i - 1) :
                       ~(s[j] \in {"www.onvif.org", "onvif.org"}
                         /\ s[j + 1] = "/" /\ s[j + 2] = word /\ s[j + 3] = "/")
    IN  SubSeq(scope, at + 4, Len(scope))

\* The scopes of the list that carry the marker of this word.
ScopesWith(word) ==
    {i \in 1..Len(sc_scopes) : has_marker(lower(sc_scopes[i]), word)}

LastOf(S) == CHOOSE i \in S : \A j \in S : j <= i

\* C34: when the enricher has gone through a scope list, friendly_name is
\* the text after onvif.org/name/ with %20 read as a blank, model is the
\* text after onvif.org/hardware/, and the text after each onvif.org/type/
\* is in device_tags, where no tag occurs twice.
C34_ScopesParsed ==
    sc_pc = "returned" =>
        /\ ScopesWith("name") /= {} =>
              sc_dev.friendly_name =
                 text_of(replace_percent20(
                     TextAfter(sc_scopes[LastOf(ScopesWith("name"))], "name")))
        /\ ScopesWith("hardware") /= {} =>
              sc_dev.model =
                 text_of(TextAfter(sc_scopes[LastOf(ScopesWith("hardware"))], "hardware"))
        /\ \A i \in ScopesWith("type") :
              TextAfter(sc_scopes[i], "type") /= <<>>
                 => InList(text_of(TextAfter(sc_scopes[i], "type")), sc_dev.device_tags)
        /\ \A i, j \in 1..Len(sc_dev.device_tags) :
              sc_dev.device_tags[i] = sc_dev.device_tags[j] => i = j

\* The same with %20 read as a blank in the model as well: still not what
\* the code does for a marker in capitals or a second /name/ in the text.
C34_ScopesParsedModelDecoded ==
    sc_pc = "returned" =>
        /\ ScopesWith("name") /= {} =>
              sc_dev.friendly_name =
                 text_of(replace_percent20(
                     TextAfter(sc_scopes[LastOf(ScopesWith("name"))], "name")))
        /\ ScopesWith("hardware") /= {} =>
              sc_dev.model =
                 text_of(replace_percent20(
                     TextAfter(sc_scopes[LastOf(ScopesWith("hardware"))], "hardware")))

\* What the code keeps to on scopes written in lower case whose value holds
\* no further separator: the three fields, the model with %20 decoded.
PlainScopes ==
    \A i \in 1..Len(sc_scopes) : sc_scopes[i] \notin {ScopeNameUpper, ScopeNameNested}

C34_PlainScopesParsed ==
    (sc_pc = "returned" /\ PlainScopes) =>
        /\ ScopesWith("name") /= {} =>
              sc_dev.friendly_name =
                 text_of(replace_percent20(
                     TextAfter(sc_scopes[LastOf(ScopesWith("name"))], "name")))
        /\ ScopesWith("hardware") /= {} =>
              sc_dev.model =
                 text_of(replace_percent20(
                     TextAfter(sc_scopes[LastOf(ScopesWith("hardware"))], "hardware")))
        /\ \A i \in ScopesWith("type") :
              TextAfter(sc_scopes[i], "type") /= <<>>
                 => InList(text_of(TextAfter(sc_scopes[i], "type")), sc_dev.device_tags)
        /\ \A i, j \in 1..Len(sc_dev.device_tags) :
              sc_dev.device_tags[i] = sc_dev.device_tags[j] => i = j

\* A scope whose marker is written with capitals went through the name
\* branch and left the whole URI as the name.
C34_WholeUriAsName ==
    /\ sc_pc = "returned"
    /\ sc_scopes = <<ScopeNameUpper>>
    /\ sc_dev.friendly_name = text_of(replace_percent20(ScopeNameUpper))
(***************************************************************************)
(* C35                                                                     *)
(***************************************************************************)
NoEqualRecords ==
    \A i, j \in 1..Len(discovered) : discovered[i] = discovered[j] => i = j

\* One step of discover() leaves the list as it is or puts one record,
\* equal to none of the list, behind the records collected before.
KeepsOrAppendsNew ==
    \/ discovered' = discovered
    \/ /\ Len(discovered') = Len(discovered) + 1
       /\ SubSeq(discovered', 1, Len(discovered)) = discovered
       /\ ~InList(discovered'[Len(discovered')], discovered)

\* C35: the list that UPnP discover() collects never holds two equal
\* records; a response whose record (parsed headers, source address, fetched
\* name and type) equals a collected one is dropped, and the records kept
\* stay in the order in which their first copies arrived.
C35_NoEqualRecords == []NoEqualRecords /\ [][KeepsOrAppendsNew]_vars

\* A second response gave the record of the first and was dropped.
C35_Witness ==
    /\ upnp_recvd = 2
    /\ Len(discovered) = 1
    /\ upnp_last /= <<>>
    /\ upnp_last[1].device = discovered[1]
    /\ "name" \in DOMAIN discovered[1]

\* Two responses with different records were both kept.
C35_WitnessTwo ==
    /\ upnp_recvd = 2
    /\ Len(discovered) = 2
    /\ upnp_last /= <<>>
    /\ upnp_last[1].device = discovered[2]
(***************************************************************************)
(* C36, C38                                                                *)
(***************************************************************************)
\* C36: at every moment of an MQTT probe the $SYS map holds at most 200
\* entries and the set of sampled topics at most 50 names, however many
\* messages the reader thread delivers and whenever it does.
C36_CapsHold ==
    rd_pc /= Idle =>
        /\ Cardinality(DOMAIN rd_state.sys_data) <= 200
        /\ Cardinality(rd_state.sampled_topics) <= 50

\* Both collections are full, and the reader has left out a message on a
\* further $SYS topic and a message on a further topic outside $SYS.
C36_Witness ==
    /\ rd_pc /= Idle
    /\ Cardinality(DOMAIN rd_state.sys_data) = MAX_SYS_ENTRIES
    /\ Cardinality(rd_state.sampled_topics) = MAX_SAMPLED_TOPICS
    /\ rd_dropped = {"sys", "topic"}

\* C38: in every MQTT record returned, topic_count is the number of entries
\* of sampled_topics, also when the reader thread delivers messages while
\* the main thread assembles the result.
C38_TopicCountIsLength ==
    rd_pc = "returned" => rd_result.topic_count = Len(rd_result.sampled_topics)

\* What the code keeps to: topic_count is at least the length of the list
\* and at most the cap, and the list holds no name twice.
C38_TopicCountAtLeastLength ==
    rd_pc = "returned" =>
        /\ Len(rd_result.sampled_topics) <= rd_result.topic_count
        /\ rd_result.topic_count <= MAX_SAMPLED_TOPICS
        /\ \A i, j \in 1..Len(rd_result.sampled_topics) :
              rd_result.sampled_topics[i] = rd_result.sampled_topics[j] => i = j

\* A record was returned whose topic_count counts a topic that arrived
\* after the list had been taken.
C38_CountAhead ==
    /\ rd_pc = "returned"
    /\ rd_result.topic_count = Len(rd_result.sampled_topics) + 1
    /\ rd_late > 0
(***************************************************************************)
(* C37                                                                     *)
(***************************************************************************)
\* The requests that passed with `now` in the 60 seconds from this moment.
PassedIn(from) ==
    {i \in 1..Len(rl_passed) : from <= rl_passed[i] /\ rl_passed[i] < from + 60}

\* C37: of the requests of one client to /api/discover, at most 10 pass the
\* rate limiter in any window of 60 seconds, also when worker threads
\* handle requests of the client at the same time.
C37_TenPerWindow ==
    \A i \in 1..Len(rl_passed) : Cardinality(PassedIn(rl_passed[i])) <= 10

\* What the code keeps to: the limit holds as long as no two requests of
\* the client were inside rate_limit at the same time.
C37_TenPerWindowOneAtATime ==
    ~rl_overlap => \A i \in 1..Len(rl_passed) : Cardinality(PassedIn(rl_passed[i])) <= 10

\* Ten requests passed one at a time in one window, and an eleventh was
\* turned away without being counted.
C37_EleventhRejected ==
    /\ ~rl_overlap
    /\ Len(rl_passed) = 10
    /\ rl_started = 11
    /\ Len(rl_current) = 10
    /\ \A w \in WorkerThreads : rl_pc[w] = "idle"

\* Eleven requests passed in one window.
C37_ElevenPassed ==
    /\ Len(rl_passed) = 11
    /\ Cardinality(PassedIn(rl_passed[1])) = 11
(***************************************************************************)
(* C39                                                                     *)
(***************************************************************************)
\* The parsed fields of a record are those that _parse_sys_data derives
\* from the record's own metadata map.
AgreesWithMetadata(rec) ==
    LET parsed == parse_sys_data(rec.metadata,
                                 broker_result(rec.address, rec.port, rec.tls_supported))
    IN  /\ SysVersion \in DOMAIN rec.metadata
              => rec.broker_version = rec.metadata[SysVersion]
        /\ rec.uptime_seconds = parsed.uptime_seconds
        /\ rec.connected_clients = parsed.connected_clients
        /\ rec.messages_received = parsed.messages_received
        /\ rec.messages_sent = parsed.messages_sent

\* C39: in every record returned after an accepted anonymous CONNECT the
\* parsed fields agree with the metadata map of the same record (a version
\* in the map is the broker_version; likewise uptime, connected clients and
\* the message counters), whenever the $SYS messages arrived.
C39_ParsedFieldsMatchMetadata ==
    (probe_pc = "done" /\ probe_rc = 0) =>
        \A i \in 1..2 :
            Len(probe_return[i]) = 1 => AgreesWithMetadata(probe_return[i][1])

\* What the code keeps to: the fields agree with the map when the probe had
\* no time for the topic phase, so that nothing arrived between the parsing
\* and the copy of the map.
C39_AgreeWithoutTopicPhase ==
    (probe_pc = "done" /\ probe_rc = 0 /\ remaining_after_sys(probe_args.timeout) <= 500) =>
        \A i \in 1..2 :
            Len(probe_return[i]) = 1 => AgreesWithMetadata(probe_return[i][1])

\* A record whose metadata holds the broker's version while broker_version
\* is None: the version arrived during the topic phase.
C39_VersionOnlyInMetadata ==
    /\ probe_pc = "done"
    /\ Len(probe_return[1]) = 1
    /\ SysVersion \in DOMAIN probe_return[1][1].metadata
    /\ probe_return[1][1].broker_version = None(***************************************************************************)
(* C40: classification is deterministic: the rules are tried by descending *)
(* priority, and among matching rules of one priority the one that comes   *)
(* first in the list the classifier was built from gives the category,     *)
(* whatever the order of the patterns' hits in the device.                 *)
(***************************************************************************)
\* The place of a rule in the list the classifier was constructed with.
DeclaredAt(rule) ==
    LET rules == rules_or_default(cls_rules)
    IN  CHOOSE i \in 1..Len(rules) :
           /\ rules[i] = rule
           /\ \A j \in 1..(i - 1) : rules[j] /= rule

\* r1 is tried ahead of r2.
TriedAhead(r1, r2) ==
    \/ priority(r1) > priority(r2)
    \/ priority(r1) = priority(r2) /\ DeclaredAt(r1) < DeclaredAt(r2)

C40_FirstDeclaredWins ==
    (cls_calls > 0 /\ MatchingRules /= {}) =>
       /\ cls_dev.device_category \in MatchingRules
       /\ \A r \in MatchingRules \ {cls_dev.device_category} :
             TriedAhead(cls_dev.device_category, r)

\* Reached: two rules of one priority match under the table's order, and
\* under a list that names them the other way round.
C40_Witness ==
    /\ cls_calls > 0
    /\ cls_rules = <<>>
    /\ {"smart-home-hub", "mqtt-broker"} \subseteq MatchingRules
    /\ cls_dev.device_category = "smart-home-hub"

C40_WitnessListOrder ==
    /\ cls_calls > 0
    /\ cls_rules = <<"mqtt-broker", "smart-home-hub", "coap-device", "iot-device">>
    /\ {"smart-home-hub", "mqtt-broker"} \subseteq MatchingRules
    /\ cls_dev.device_category = "mqtt-broker"

C40_WitnessLowPriorities ==
    /\ cls_calls > 0
    /\ cls_rules = <<"industrial", "router", "smart-speaker", "media">>
    /\ {"smart-speaker", "industrial"} \subseteq MatchingRules
    /\ cls_dev.device_category = "industrial"
=============================================================================
